---- MODULE Spec2Model ----
(***************************************************************************)
(* Model of the narrative timeline core of story-creator:                  *)
(*   - the analysis cache of NoSQLStorage / MongoStorage,                  *)
(*   - EventService (event extraction, position repair, cross-story        *)
(*     connections),                                                       *)
(*   - the event and story update routes,                                  *)
(*   - RelationshipDiagram (entity connections).                           *)
(*                                                                         *)
(* Conventions.  A Python Optional is a sequence of length at most one:    *)
(* <<>> is None and <<x>> is the value x.  A TinyDB table / Mongo          *)
(* collection is the sequence of its documents in insertion order.  A      *)
(* string whose characters matter (story content) is the sequence of its   *)
(* characters, "NL" standing for the newline character.                    *)
(***************************************************************************)
EXTENDS Integers, Sequences, FiniteSets, TLC

VARIABLES
    event_analysis_cache,  \* table event_analysis_cache
    stories,               \* table stories: story_id -> [content, visibility]
    events,                \* table events
    next_event_id,         \* number of event ids (uuid4) handed out so far
    lastCall,              \* the operation that ran last, its arguments and result
    lastPut,               \* history: per cache key, the last put not yet invalidated
    invalidated,           \* history: cache keys invalidated and not saved since
    analysed,              \* history: per cache key, the contents the cached analysis saw
    pc, t_content, t_raw,  \* extraction threads: position, content, raw_result
    t_wrote,               \* history: what each thread inserted into the cache
    rp, rV, rOut,          \* position repair: requested index, valid indices, result
    g_events, g_world_name, g_out,       \* cross-story connections: input and output
    d_stories, d_positions, d_entity_connections, d_out, \* relationship diagram
    l_stories, l_linked,   \* StoryLinker: the stories given, link_stories has run
    tl_world, tl_events, tl_out, \* build_timeline: world, stored events, result
    f_canvas, f_entities, f_connections, \* force_directed_layout: its arguments,
    f_positions, f_temperature, f_iteration, \* positions, temperature, iterations run
    f_first,               \* layout: what the run before the last one returned
    worlds, w_saved,       \* table worlds; history: the last save per world_id
    gpt_results,           \* the tasks of the event routes, in order of creation
    t_callbacks,           \* history: the callbacks invoked for each task
    t_threads              \* the extraction thread of each task: arguments, state

cacheVars   == <<event_analysis_cache, lastPut, invalidated>>
serviceVars == <<stories, events, next_event_id, analysed>>
threadVars  == <<pc, t_content, t_raw, t_wrote>>
resolveVars == <<rp, rV, rOut>>
graphVars   == <<g_events, g_world_name, g_out>>
diagramVars == <<d_stories, d_positions, d_entity_connections, d_out>>
linkVars    == <<l_stories, l_linked>>
\* the parts of the state outside the cache, the service and the diagrams
timelineVars == <<tl_world, tl_events, tl_out>>
layoutVars  == <<f_canvas, f_entities, f_connections, f_positions,
                 f_temperature, f_iteration, f_first>>
storeVars   == <<worlds, w_saved, gpt_results, t_callbacks, t_threads>>
moreVars    == <<linkVars, timelineVars, layoutVars, storeVars>>
vars == <<cacheVars, serviceVars, threadVars, resolveVars, graphVars,
          diagramVars, moreVars, lastCall>>

(***************************************************************************)
(* Bounds                                                                  *)
(***************************************************************************)
\* number of characters of a story that reach the prompt (content[:3000]),
\* scaled to the size of the modelled contents
PromptLimit == 3
\* number of events (uuid4 event ids) created in one behaviour
MaxEvents == 2
\* largest line index a client may put into an event
MaxPos == 2
\* largest valid line index of the position repair inputs
MaxLine == 3

StoryIds == {"s1", "s2"}
WorldId == "w1"
\* the stories table in insertion order
StoryOrder == <<"s1", "s2">>
Visibilities == {"private", "public"}

None == <<>>
Some(x) == <<x>>

(***************************************************************************)
(* Strings                                                                 *)
(***************************************************************************)
Whitespace == {" ", "NL"}

\* str.strip() is non-empty: the string has a character that is not whitespace
StripNonEmpty(s) == \E i \in 1..Len(s) : s[i] \notin Whitespace

\* str.lower() over the characters that occur in the modelled names
LowerChar(ch) ==
    CASE ch = "E" -> "e" [] ch = "F" -> "f" [] ch = "H" -> "h" [] OTHER -> ch
Lower(name) == [i \in 1..Len(name) |-> LowerChar(name[i])]

\* s[:n]
Prefix(s, n) == SubSeq(s, 1, IF Len(s) < n THEN Len(s) ELSE n)

\* s.split('\n'): the lines of s; the empty string has one (empty) line
RECURSIVE SplitFrom(_, _, _)
SplitFrom(s, i, cur) ==
    IF i > Len(s) THEN <<cur>>
    ELSE IF s[i] = "NL" THEN <<cur>> \o SplitFrom(s, i + 1, <<>>)
    ELSE SplitFrom(s, i + 1, Append(cur, s[i]))

SplitLines(s) == SplitFrom(s, 1, <<>>)

\* [i for i, p in enumerate(paragraphs) if p.strip()], zero-based, ascending
RECURSIVE NonEmptyFrom(_, _)
NonEmptyFrom(lines, i) ==
    IF i > Len(lines) THEN <<>>
    ELSE (IF StripNonEmpty(lines[i]) THEN <<i - 1>> ELSE <<>>)
         \o NonEmptyFrom(lines, i + 1)

NonEmptyIndices(content) == NonEmptyFrom(SplitLines(content), 1)

\* '\n'.join(parts)
RECURSIVE JoinNL(_)
JoinNL(parts) ==
    IF parts = <<>> THEN <<>>
    ELSE IF Len(parts) = 1 THEN parts[1]
    ELSE parts[1] \o <<"NL">> \o JoinNL(Tail(parts))

\* str(i) for the line and story numbers of the prompt
Digits == <<"0", "1", "2", "3", "4", "5", "6", "7", "8", "9">>
ToStr(i) == Digits[i + 1]

\* content.encode('utf-8'): one byte per modelled character
ByteOf(ch) ==
    CASE ch = " " -> 32
      [] ch = "NL" -> 10
      [] ch = "a" -> 97
      [] ch = "b" -> 98
      [] ch = "=" -> 61
      [] ch = "|" -> 124
      [] ch = "s" -> 115
      [] OTHER -> 48 + (CHOOSE d \in 0..9 : Digits[d + 1] = ch)

EncodeUtf8(s) == [i \in 1..Len(s) |-> ByteOf(s[i])]

\* hashlib.sha256(...).hexdigest(): SHA-256 has no known collisions; the
\* digest is modelled as determined by, and determining, the byte string
hash_content(content) == <<"sha256">> \o EncodeUtf8(content)

(***************************************************************************)
(* Inputs                                                                  *)
(***************************************************************************)
\* story contents a client may store
ContentPool ==
    { <<" ">>,
      <<"a", "NL", "NL", "a">>,
      <<"a", "NL", "NL", "b">> }

\* analyzer (GPT) results: events with story_index, title, description and
\* story_position, and connections between event indices
GptResults ==
    { [events |-> << [story_index |-> 0, title |-> <<"t", "1">>,
                      description |-> <<"d">>, story_position |-> 1,
                      characters |-> <<>>, locations |-> <<>>] >>,
       connections |-> <<>>],
      [events |-> << [story_index |-> 1, title |-> <<>>, description |-> <<>>,
                      story_position |-> 0,
                      characters |-> <<>>, locations |-> <<>>],
                     [story_index |-> 0, title |-> <<"t", "2">>,
                      description |-> <<>>, story_position |-> 3,
                      characters |-> <<>>, locations |-> <<>>] >>,
       connections |-> <<>>] }

\* keys of the analysis cache: a story id, or "world_<world_id>"
WorldCacheKey == "world_w1"
CacheKeys == StoryIds \cup {WorldCacheKey}

Fingerprints == { hash_content(c) : c \in ContentPool \ {<<" ">>} }

(***************************************************************************)
(* Analysis cache (NoSQLStorage and MongoStorage do the same)              *)
(***************************************************************************)
\* table.remove(CacheQuery.story_id == story_id) / delete_many
CacheRemove(tbl, story_id) ==
    SelectSeq(tbl, LAMBDA d : d.story_id # story_id)

\* table.insert(cache_data) / insert_one; cache_id, analyzed_at and
\* model_used are never read back and are left out of the document
CacheInsert(tbl, story_id, content_hash, gpt_response) ==
    Append(tbl, [story_id |-> story_id,
                 story_content_hash |-> content_hash,
                 raw_gpt_response |-> gpt_response,
                 extracted_events_count |-> Len(gpt_response.events)])

save_analysis_cache_keep_old(tbl, story_id, content_hash, gpt_response) ==
    CacheInsert(tbl, story_id, content_hash, gpt_response)

save_analysis_cache(tbl, story_id, content_hash, gpt_response) ==
    CacheInsert(CacheRemove(tbl, story_id), story_id, content_hash, gpt_response)

get_analysis_cache_any_hash(tbl, story_id, content_hash) ==
    LET results == SelectSeq(tbl, LAMBDA d : d.story_id = story_id)
    IN  IF results # <<>> THEN Some(results[1]) ELSE None

get_analysis_cache(tbl, story_id, content_hash) ==
    LET results == SelectSeq(tbl, LAMBDA d :
                       d.story_id = story_id /\ d.story_content_hash = content_hash)
    IN  IF results # <<>> THEN Some(results[1]) ELSE None

delete_analysis_cache_noop(tbl, story_id) == tbl

delete_analysis_cache(tbl, story_id) == CacheRemove(tbl, story_id)

\* the values the variables of the other parts keep while one part runs
IdleCache   == /\ event_analysis_cache = <<>>
               /\ lastPut = [k \in CacheKeys |-> None]
               /\ invalidated = {}
IdleService == /\ stories = [s \in StoryIds |->
                                [content |-> <<"a", "NL", "NL", "a">>,
                                 visibility |-> "public"]]
               /\ events = <<>>
               /\ next_event_id = 0
               /\ analysed = [k \in CacheKeys |-> None]
IdleThreads == /\ pc = <<>> /\ t_content = <<>> /\ t_raw = <<>> /\ t_wrote = <<>>
IdleResolve == /\ rp = 0 /\ rV = <<>> /\ rOut = None
IdleGraph   == /\ g_events = <<>> /\ g_world_name = <<>> /\ g_out = None
IdleLink    == /\ l_stories = <<>> /\ l_linked = FALSE
IdleTimeline == /\ tl_world = None /\ tl_events = <<>> /\ tl_out = None
IdleLayout  == /\ f_canvas = <<0, 0>> /\ f_entities = <<>> /\ f_connections = <<>>
               /\ f_positions = <<>> /\ f_temperature = 0 /\ f_iteration = 0
               /\ f_first = None
IdleStore   == /\ worlds = <<>> /\ w_saved = <<>>
               /\ gpt_results = <<>> /\ t_callbacks = <<>> /\ t_threads = <<>>
IdleMore    == IdleLink /\ IdleTimeline /\ IdleLayout /\ IdleStore
IdleDiagram == /\ d_stories = <<>> /\ d_positions = {}
               /\ d_entity_connections = None /\ d_out = None

(***************************************************************************)
(* SpecCache: the storage operations called one after another              *)
(***************************************************************************)
InitCache ==
    /\ IdleCache /\ IdleService /\ IdleThreads /\ IdleResolve
    /\ IdleGraph /\ IdleDiagram /\ IdleMore
    /\ lastCall = [op |-> "init"]

SaveAnalysisCache(story_id, content_hash, gpt_response) ==
    /\ event_analysis_cache' =
          save_analysis_cache(event_analysis_cache, story_id, content_hash, gpt_response)
    /\ lastPut' = [lastPut EXCEPT ![story_id] =
                      Some([hash |-> content_hash, payload |-> gpt_response])]
    /\ invalidated' = invalidated \ {story_id}
    /\ lastCall' = [op |-> "save_analysis_cache", story_id |-> story_id,
                    replaced |-> \E i \in 1..Len(event_analysis_cache) :
                        /\ event_analysis_cache[i].story_id = story_id
                        /\ event_analysis_cache[i].story_content_hash # content_hash]
    /\ UNCHANGED <<serviceVars, threadVars, resolveVars, graphVars, diagramVars, moreVars>>

GetAnalysisCache(story_id, content_hash) ==
    /\ lastCall' = [op |-> "get_analysis_cache", story_id |-> story_id,
                    hash |-> content_hash,
                    result |-> get_analysis_cache(event_analysis_cache,
                                                  story_id, content_hash)]
    /\ UNCHANGED <<cacheVars, serviceVars, threadVars, resolveVars, graphVars,
                   diagramVars, moreVars>>

DeleteAnalysisCache(story_id) ==
    /\ event_analysis_cache' = delete_analysis_cache(event_analysis_cache, story_id)
    /\ lastPut' = [lastPut EXCEPT ![story_id] = None]
    /\ invalidated' = invalidated \cup {story_id}
    /\ lastCall' = [op |-> "delete_analysis_cache", story_id |-> story_id,
                    result |-> (Len(event_analysis_cache')
                                  < Len(event_analysis_cache))]
    /\ UNCHANGED <<serviceVars, threadVars, resolveVars, graphVars, diagramVars, moreVars>>

NextCache ==
    \/ \E k \in CacheKeys, h \in Fingerprints, r \in GptResults :
           SaveAnalysisCache(k, h, r)
    \/ \E k \in CacheKeys, h \in Fingerprints : GetAnalysisCache(k, h)
    \/ \E k \in CacheKeys : DeleteAnalysisCache(k)

SpecCache == InitCache /\ [][NextCache]_vars

\* C1: get(id, f) returns the payload p exactly when the most recent put for
\* id that no invalidate followed was put(id, f, p); otherwise it is a miss,
\* also when an entry for id exists with another fingerprint.
C1_GetReturnsLastPut ==
    lastCall.op = "get_analysis_cache" =>
        LET put == lastPut[lastCall.story_id]
        IN  IF put # None /\ put[1].hash = lastCall.hash
            THEN /\ lastCall.result # None
                 /\ lastCall.result[1].raw_gpt_response = put[1].payload
            ELSE lastCall.result = None

\* a get with a fingerprint other than the stored one has been answered
C1_Witness ==
    /\ lastCall.op = "get_analysis_cache"
    /\ lastPut[lastCall.story_id] # None
    /\ lastPut[lastCall.story_id][1].hash # lastCall.hash
    /\ lastCall.result = None

\* C2: after saves and deletes executed one after another the table holds at
\* most one entry per story_id, and that entry is the fingerprint and payload
\* of one save (the latest one), never a mix of two saves.
C2_OneEntryPerStory ==
    \A k \in CacheKeys :
        LET entries == SelectSeq(event_analysis_cache, LAMBDA d : d.story_id = k)
        IN  /\ Len(entries) <= 1
            /\ Len(entries) = 1 =>
                 /\ lastPut[k] # None
                 /\ entries[1].story_content_hash = lastPut[k][1].hash
                 /\ entries[1].raw_gpt_response = lastPut[k][1].payload

\* a second save with another fingerprint has replaced the entry of a story
C2_Witness ==
    /\ lastCall.op = "save_analysis_cache"
    /\ Len(event_analysis_cache) = 1
    /\ lastCall.replaced

(***************************************************************************)
(* Position repair (EventService._process_gpt_result and                   *)
(* _process_combined_gpt_result snap story_position the same way)          *)
(***************************************************************************)
Abs(x) == IF x < 0 THEN -x ELSE x

Contains(seq, x) == \E i \in 1..Len(seq) : seq[i] = x

\* Python min(seq, key=...): the first element whose key is smallest
RECURSIVE MinByDistanceFrom(_, _, _, _)
MinByDistanceFrom(seq, p, i, best) ==
    IF i > Len(seq) THEN best
    ELSE MinByDistanceFrom(seq, p, i + 1,
             IF Abs(seq[i] - p) < Abs(best - p) THEN seq[i] ELSE best)

MinByDistance(seq, p) == MinByDistanceFrom(seq, p, 2, seq[1])

RECURSIVE MinByDistanceLastFrom(_, _, _, _)
MinByDistanceLastFrom(seq, p, i, best) ==
    IF i > Len(seq) THEN best
    ELSE MinByDistanceLastFrom(seq, p, i + 1,
             IF Abs(seq[i] - p) <= Abs(best - p) THEN seq[i] ELSE best)

snap_position_last_min(gpt_pos, non_empty_indices) ==
    IF non_empty_indices # <<>> /\ ~Contains(non_empty_indices, gpt_pos)
    THEN MinByDistanceLastFrom(non_empty_indices, gpt_pos, 2, non_empty_indices[1])
    ELSE gpt_pos

\* raw_pos: gpt_pos, snapped to the nearest non-empty line when it names none
snap_position(gpt_pos, non_empty_indices) ==
    IF non_empty_indices # <<>> /\ ~Contains(non_empty_indices, gpt_pos)
    THEN MinByDistance(non_empty_indices, gpt_pos)
    ELSE gpt_pos

\* the ascending non-empty lists of line indices 0..MaxPos
AscendingLists ==
    { v \in UNION { [1..n -> 0..MaxLine] : n \in 1..(MaxLine + 1) } :
        \A i \in 1..(Len(v) - 1) : v[i] < v[i + 1] }

RequestedPositions == (-1)..(MaxLine + 2)

InitResolve ==
    /\ IdleCache /\ IdleService /\ IdleThreads /\ IdleGraph /\ IdleDiagram /\ IdleMore
    /\ rp \in RequestedPositions
    /\ rV \in AscendingLists
    /\ rOut = None
    /\ lastCall = [op |-> "init"]

SnapPosition ==
    /\ rOut = None
    /\ rOut' = Some(snap_position(rp, rV))
    /\ lastCall' = [op |-> "snap_position"]
    /\ UNCHANGED <<rp, rV, cacheVars, serviceVars, threadVars, graphVars,
                   diagramVars, moreVars>>

NextResolve == SnapPosition

SpecResolve == InitResolve /\ [][NextResolve]_vars

\* C6: the stored position is an element of V nearest to p; of two elements
\* at the same distance the smaller one is taken; p itself when p is in V.
C6_NearestSmallerOnTie ==
    rOut # None =>
        LET v == rOut[1]
        IN  /\ Contains(rV, v)
            /\ \A i \in 1..Len(rV) :
                 /\ Abs(v - rp) <= Abs(rV[i] - rp)
                 /\ Abs(v - rp) = Abs(rV[i] - rp) => v <= rV[i]
            /\ Contains(rV, rp) => v = rp

\* a request between two valid lines at the same distance has been repaired
C6_Witness ==
    /\ rOut # None
    /\ ~Contains(rV, rp)
    /\ \E i, j \in 1..Len(rV) :
         /\ rV[i] < rV[j]
         /\ Abs(rV[i] - rp) = Abs(rV[j] - rp)
         /\ rOut[1] = rV[i]

(***************************************************************************)
(* Event model and analyzer-result processing                              *)
(***************************************************************************)
\* Event.add_connection: a connection with the same target and type is kept once
add_connection(event, target_event_id, relation_type, relation_label) ==
    IF \E i \in 1..Len(event.connections) :
           /\ event.connections[i].target_event_id = target_event_id
           /\ event.connections[i].relation_type = relation_type
    THEN event
    ELSE [event EXCEPT !.connections =
             Append(@, [target_event_id |-> target_event_id,
                        relation_type |-> relation_type,
                        relation_label |-> relation_label])]

\* an analyzer event is skipped when title.strip() and description.strip()
\* are both empty
IsEmptyEvent(evt) == ~StripNonEmpty(evt.title) /\ ~StripNonEmpty(evt.description)

\* _build_character_name_map / _build_location_name_map: lower-cased name ->
\* id of the entities and locations stored for the world (entity c1 is named
\* "h", location l1 "Fo", location lw like the world, "El")
char_name_to_id == << <<<<"h">>, "c1">> >>
loc_name_to_id == << <<<<"f", "o">>, "l1">>, <<<<"e", "l">>, "lw">> >>

\* the ids of the names that the map knows, in the order of the names
RECURSIVE ResolveNames(_, _, _)
ResolveNames(names, name_to_id, i) ==
    IF i > Len(names) THEN <<>>
    ELSE (IF \E k \in 1..Len(name_to_id) : name_to_id[k][1] = Lower(names[i])
          THEN <<name_to_id[CHOOSE k \in 1..Len(name_to_id) :
                                name_to_id[k][1] = Lower(names[i])][2]>>
          ELSE <<>>)
         \o ResolveNames(names, name_to_id, i + 1)

\* Event(...): event_id is a fresh uuid4, modelled as the next unused number
NewEvent(evt, story_id, raw_pos, event_id) ==
    [event_id |-> event_id,
     title |-> evt.title,
     description |-> evt.description,
     story_id |-> story_id,
     world_id |-> WorldId,
     characters |-> ResolveNames(evt.characters, char_name_to_id, 1),
     locations |-> ResolveNames(evt.locations, loc_name_to_id, 1),
     story_position |-> raw_pos,
     connections |-> <<>>,
     visibility |-> "private",
     owner_id |-> None]

\* the loop over events_data of _process_gpt_result: the created events, each
\* with the index it had in the analyzer result
RECURSIVE BuildEvents(_, _, _, _, _)
BuildEvents(events_data, i, story_id, non_empty_indices, next_id) ==
    IF i > Len(events_data) THEN <<>>
    ELSE LET evt == events_data[i]
             raw_pos == snap_position(evt.story_position, non_empty_indices)
         IN  IF IsEmptyEvent(evt)
             THEN BuildEvents(events_data, i + 1, story_id, non_empty_indices, next_id)
             ELSE <<[index |-> i - 1,
                     event |-> NewEvent(evt, story_id, raw_pos, next_id)]>>
                  \o BuildEvents(events_data, i + 1, story_id, non_empty_indices,
                                 next_id + 1)

\* the connection loop of _process_gpt_result.  created_events[from_idx] is a
\* Python list index (a negative index counts from the end, an index below
\* -len raises IndexError) and event_id_map[to_idx] raises KeyError for an
\* index that created no event
RECURSIVE AddConnections(_, _, _, _)
AddConnections(created, built, conns, k) ==
    IF k > Len(conns) THEN [events |-> created, raised |-> FALSE]
    ELSE LET conn == conns[k]
             n == Len(created)
             from_idx == conn.from_event_index
             to_idx == conn.to_event_index
         IN  IF from_idx < n /\ to_idx < n
             THEN IF from_idx < -n
                       \/ ~\E b \in 1..Len(built) : built[b].index = to_idx
                  THEN [events |-> created, raised |-> TRUE]
                  ELSE LET f == IF from_idx >= 0 THEN from_idx + 1
                                ELSE n + from_idx + 1
                           target == (CHOOSE b \in 1..Len(built) :
                                          built[b].index = to_idx)
                       IN  AddConnections(
                               [created EXCEPT ![f] =
                                   add_connection(@, built[target].event.event_id,
                                                  conn.relation_type,
                                                  conn.relation_label)],
                               built, conns, k + 1)
             ELSE AddConnections(created, built, conns, k + 1)

\* _process_gpt_result up to the save loop: the events to save, or raised
process_gpt_result(raw_result, story_id, non_empty_indices, next_id) ==
    LET built == BuildEvents(raw_result.events, 1, story_id, non_empty_indices,
                             next_id)
        created == [b \in 1..Len(built) |-> built[b].event]
    IN  AddConnections(created, built, raw_result.connections, 1)

(***************************************************************************)
(* World extraction: combined content and its processing                   *)
(***************************************************************************)
\* list_stories(world_id) without user_id: the public stories, in table order
list_stories(st) == SelectSeq(StoryOrder, LAMBDA s : st[s].visibility = "public")

\* "{line_idx}| {line}" for every line of content[:3000]
NumberedLines(content) ==
    LET content_lines == SplitLines(Prefix(content, PromptLimit))
    IN  [i \in 1..Len(content_lines) |->
            <<ToStr(i - 1), "|", " ">> \o content_lines[i]]

\* combined_content_parts: per story with content a header and its numbered
\* lines; title and genre of the header are not modelled
RECURSIVE CombinedParts(_, _, _)
CombinedParts(st, listed, i) ==
    IF i > Len(listed) THEN <<>>
    ELSE LET content == st[listed[i]].content
         IN  (IF StripNonEmpty(content)
              THEN << <<"=", "s", ToStr(i - 1), "=">> >> \o NumberedLines(content)
              ELSE <<>>)
             \o CombinedParts(st, listed, i + 1)

combined_content(st, listed) == JoinNL(CombinedParts(st, listed, 1))

\* story_map: the story_index values that have an entry
StoryMapIndices(st, listed) ==
    { i - 1 : i \in { j \in 1..Len(listed) : StripNonEmpty(st[listed[j]].content) } }

\* the loop over events_data of _process_combined_gpt_result
RECURSIVE BuildCombinedEvents(_, _, _, _, _)
BuildCombinedEvents(events_data, i, st, listed, next_id) ==
    IF i > Len(events_data) THEN <<>>
    ELSE LET evt == events_data[i]
             story_idx == evt.story_index
         IN  IF story_idx \notin StoryMapIndices(st, listed) \/ IsEmptyEvent(evt)
             THEN BuildCombinedEvents(events_data, i + 1, st, listed, next_id)
             ELSE LET story_id == listed[story_idx + 1]
                      raw_pos == snap_position(evt.story_position,
                                     NonEmptyIndices(st[story_id].content))
                  IN  <<[index |-> i - 1,
                         event |-> NewEvent(evt, story_id, raw_pos, next_id)]>>
                      \o BuildCombinedEvents(events_data, i + 1, st, listed,
                                             next_id + 1)

\* the connection loop of _process_combined_gpt_result: both indices must be
\* keys of event_id_map
RECURSIVE AddCombinedConnections(_, _, _)
AddCombinedConnections(built, conns, k) ==
    IF k > Len(conns) THEN built
    ELSE LET conn == conns[k]
             has(idx) == \E b \in 1..Len(built) : built[b].index = idx
             at(idx) == CHOOSE b \in 1..Len(built) : built[b].index = idx
         IN  IF has(conn.from_event_index) /\ has(conn.to_event_index)
             THEN AddCombinedConnections(
                      [built EXCEPT ![at(conn.from_event_index)].event =
                          add_connection(@,
                              built[at(conn.to_event_index)].event.event_id,
                              conn.relation_type, conn.relation_label)],
                      conns, k + 1)
             ELSE AddCombinedConnections(built, conns, k + 1)

process_combined_gpt_result(raw_result, st, listed, next_id) ==
    LET built == AddCombinedConnections(
                     BuildCombinedEvents(raw_result.events, 1, st, listed, next_id),
                     raw_result.connections, 1)
    IN  [events |-> [b \in 1..Len(built) |-> built[b].event], raised |-> FALSE]

(***************************************************************************)
(* Events table                                                            *)
(***************************************************************************)
\* save_event for every created event; the ids are new, so each is an insert
save_events(tbl, created) == tbl \o created

delete_events_by_story(tbl, story_id) ==
    SelectSeq(tbl, LAMBDA e : e.story_id # story_id)

RECURSIVE delete_events_of_stories(_, _, _)
delete_events_of_stories(tbl, listed, i) ==
    IF i > Len(listed) THEN tbl
    ELSE delete_events_of_stories(delete_events_by_story(tbl, listed[i]),
                                  listed, i + 1)

\* storage.update_event: merge data (here the story_position) into the event
update_event(tbl, event_id, story_position) ==
    [i \in 1..Len(tbl) |->
        IF tbl[i].event_id = event_id
        THEN [tbl[i] EXCEPT !.story_position = story_position]
        ELSE tbl[i]]

(***************************************************************************)
(* Spec: the service and route handlers, each run to completion            *)
(***************************************************************************)
Init ==
    /\ IdleCache /\ IdleService /\ IdleThreads /\ IdleResolve
    /\ IdleGraph /\ IdleDiagram /\ IdleMore
    /\ lastCall = [op |-> "init"]

\* what callback_success / callback_error report for an extraction;
\* cache_read_error names the exception of the cache read that callback_error
\* was given, "" for every other report
ReportError(op, key, status, from_cache, cache_read_error) ==
    [op |-> op, story_id |-> key, status |-> status, from_cache |-> from_cache,
     after_invalidate |-> key \in invalidated,
     cache_read_error |-> cache_read_error]

Report(op, key, status, from_cache) ==
    ReportError(op, key, status, from_cache, "")

\* the storage classes and the ways their read of the cache table can fail on
\* unreadable data ("none": the read succeeds)
Backends == {"nosql", "mongo"}
ReadFailures(backend) ==
    IF backend = "nosql" THEN {"JSONDecodeError", "UnicodeDecodeError"}
    ELSE {"InvalidBSON"}

\* NoSQLStorage._safe_read: JSONDecodeError and ValueError (UnicodeDecodeError
\* is one) are caught, and the read returns None (str(operation) of the cache lambda holds neither 'all'
\* nor 'search'); MongoStorage.get_analysis_cache catches nothing
safe_read(backend, failure, result) ==
    IF failure = "none" THEN [raised |-> FALSE, value |-> result]
    ELSE IF backend = "nosql" /\ failure \in {"JSONDecodeError", "UnicodeDecodeError"}
    THEN [raised |-> FALSE, value |-> None]
    ELSE [raised |-> TRUE, value |-> None]

\* EventService.extract_events_from_story._extract; gpt is the analyzer's
\* answer, None when the call or the JSON parse raises; failure is how the
\* read of the cache table of the given storage class goes
ExtractStoryRead(story_id, force, gpt, backend, failure) ==
    LET content == stories[story_id].content
        non_empty_indices == NonEmptyIndices(content)
        content_hash == hash_content(content)
        read == safe_read(backend, failure,
                    get_analysis_cache(event_analysis_cache, story_id, content_hash))
        cached == IF force THEN None ELSE read.value
        op == "extract_events_from_story"
    IN  IF ~StripNonEmpty(content)
        THEN /\ lastCall' = Report(op, story_id, "error", FALSE)
             /\ UNCHANGED <<cacheVars, serviceVars>>
        ELSE IF ~force /\ read.raised
        THEN /\ lastCall' = ReportError(op, story_id, "error", FALSE, failure)
             /\ UNCHANGED <<cacheVars, serviceVars>>
        ELSE IF cached # None
        THEN LET res == process_gpt_result(cached[1].raw_gpt_response, story_id,
                                           non_empty_indices, next_event_id)
             IN  /\ next_event_id + Len(res.events) <= MaxEvents
                 /\ IF res.raised
                    THEN /\ lastCall' = Report(op, story_id, "error", FALSE)
                         /\ UNCHANGED <<events, next_event_id>>
                    ELSE /\ events' = save_events(events, res.events)
                         /\ next_event_id' = next_event_id + Len(res.events)
                         /\ lastCall' = Report(op, story_id, "completed", TRUE)
                 /\ UNCHANGED <<cacheVars, stories, analysed>>
        ELSE IF gpt = None
        THEN /\ lastCall' = Report(op, story_id, "error", FALSE)
             /\ UNCHANGED <<cacheVars, serviceVars>>
        ELSE LET raw_result == gpt[1]
                 res == process_gpt_result(raw_result, story_id,
                                           non_empty_indices, next_event_id)
                 remaining == delete_events_by_story(events, story_id)
             IN  /\ next_event_id + Len(res.events) <= MaxEvents
                 /\ event_analysis_cache' =
                        save_analysis_cache(event_analysis_cache, story_id,
                                            content_hash, raw_result)
                 /\ lastPut' = [lastPut EXCEPT ![story_id] =
                        Some([hash |-> content_hash, payload |-> raw_result])]
                 /\ invalidated' = invalidated \ {story_id}
                 /\ analysed' = [analysed EXCEPT ![story_id] = Some(content)]
                 /\ IF res.raised
                    THEN /\ events' = remaining
                         /\ next_event_id' = next_event_id
                         /\ lastCall' = Report(op, story_id, "error", FALSE)
                    ELSE /\ events' = save_events(remaining, res.events)
                         /\ next_event_id' = next_event_id + Len(res.events)
                         /\ lastCall' = Report(op, story_id, "completed", FALSE)
                 /\ UNCHANGED stories

ExtractStory(story_id, force, gpt) ==
    ExtractStoryRead(story_id, force, gpt, "nosql", "none")

\* EventService.extract_events_from_world._extract
ExtractWorld(force, gpt) ==
    LET listed == list_stories(stories)
        content_hash == hash_content(combined_content(stories, listed))
        cache_key == WorldCacheKey
        cached == IF force THEN None
                  ELSE get_analysis_cache(event_analysis_cache, cache_key, content_hash)
        op == "extract_events_from_world"
    IN  IF listed = <<>>
        THEN /\ lastCall' = Report(op, cache_key, "error", FALSE)
             /\ UNCHANGED <<cacheVars, serviceVars>>
        ELSE IF cached # None
        THEN LET res == process_combined_gpt_result(cached[1].raw_gpt_response,
                                                    stories, listed, next_event_id)
             IN  /\ next_event_id + Len(res.events) <= MaxEvents
                 /\ events' = save_events(events, res.events)
                 /\ next_event_id' = next_event_id + Len(res.events)
                 /\ lastCall' = Report(op, cache_key, "completed", TRUE)
                 /\ UNCHANGED <<cacheVars, stories, analysed>>
        ELSE IF gpt = None
        THEN /\ lastCall' = Report(op, cache_key, "error", FALSE)
             /\ UNCHANGED <<cacheVars, serviceVars>>
        ELSE LET raw_result == gpt[1]
                 res == process_combined_gpt_result(raw_result, stories, listed,
                                                    next_event_id)
             IN  /\ next_event_id + Len(res.events) <= MaxEvents
                 /\ event_analysis_cache' =
                        save_analysis_cache(event_analysis_cache, cache_key,
                                            content_hash, raw_result)
                 /\ lastPut' = [lastPut EXCEPT ![cache_key] =
                        Some([hash |-> content_hash, payload |-> raw_result])]
                 /\ invalidated' = invalidated \ {cache_key}
                 /\ analysed' = [analysed EXCEPT ![cache_key] =
                        Some([s \in StoryIds |-> stories[s].content])]
                 /\ events' = save_events(
                        delete_events_of_stories(events, listed, 1), res.events)
                 /\ next_event_id' = next_event_id + Len(res.events)
                 /\ lastCall' = Report(op, cache_key, "completed", FALSE)
                 /\ UNCHANGED stories

\* DELETE /api/stories/<id>/events/cache -> EventService.clear_story_cache
ClearStoryCache(story_id) ==
    /\ event_analysis_cache' = delete_analysis_cache(event_analysis_cache, story_id)
    /\ lastPut' = [lastPut EXCEPT ![story_id] = None]
    /\ invalidated' = invalidated \cup {story_id}
    /\ analysed' = [analysed EXCEPT ![story_id] = None]
    /\ lastCall' = [op |-> "clear_story_cache", story_id |-> story_id]
    /\ UNCHANGED <<stories, events, next_event_id>>

\* PUT /api/stories/<id> by the owner: content and visibility of the request
\* replace the stored ones (the public-story quota is not reached here)
UpdateStory(story_id, content, visibility) ==
    /\ stories' = [stories EXCEPT ![story_id] =
                      [content |-> content, visibility |-> visibility]]
    /\ lastCall' = [op |-> "update_story", story_id |-> story_id]
    /\ UNCHANGED <<cacheVars, events, next_event_id, analysed>>

\* PUT /api/events/<id> with a story_position in the body
UpdateEvent(event_id, story_position) ==
    /\ \E i \in 1..Len(events) : events[i].event_id = event_id
    /\ events' = update_event(events, event_id, story_position)
    /\ lastCall' = [op |-> "update_event", event_id |-> event_id]
    /\ UNCHANGED <<cacheVars, stories, next_event_id, analysed>>

GptAnswers == {None} \cup { Some(r) : r \in GptResults }

otherVars == <<threadVars, resolveVars, graphVars, diagramVars, moreVars>>

\* the story extraction, the cache reset and the story update route; the
\* update requests carry no visibility and rewrite the content of story s1 only
Next ==
    \/ \E s \in StoryIds, force \in BOOLEAN, gpt \in GptAnswers :
           ExtractStory(s, force, gpt) /\ UNCHANGED otherVars
    \/ \E s \in StoryIds :
           ClearStoryCache(s) /\ UNCHANGED otherVars
    \/ \E c \in ContentPool :
           UpdateStory("s1", c, stories["s1"].visibility) /\ UNCHANGED otherVars

Spec == Init /\ [][Next]_vars

\* the story extraction and the two update routes (PUT /api/stories/<id>,
\* PUT /api/events/<id>)
NextEdit ==
    \/ \E s \in StoryIds, force \in BOOLEAN, gpt \in GptAnswers :
           ExtractStory(s, force, gpt) /\ UNCHANGED otherVars
    \/ \E c \in ContentPool :
           UpdateStory("s1", c, stories["s1"].visibility) /\ UNCHANGED otherVars
    \/ \E id \in 0..(MaxEvents - 1), p \in 0..MaxPos :
           UpdateEvent(id, p) /\ UNCHANGED otherVars

SpecEdit == Init /\ [][NextEdit]_vars

\* the world and story extractions; story s2 keeps its content and changes
\* visibility only
NextWorld ==
    \/ \E force \in BOOLEAN, gpt \in GptAnswers :
           ExtractWorld(force, gpt) /\ UNCHANGED otherVars
    \/ \E s \in StoryIds, force \in BOOLEAN, gpt \in GptAnswers :
           ExtractStory(s, force, gpt) /\ UNCHANGED otherVars
    \/ \E c \in ContentPool, v \in Visibilities :
           UpdateStory("s1", c, v) /\ UNCHANGED otherVars
    \/ \E v \in Visibilities :
           UpdateStory("s2", stories["s2"].content, v) /\ UNCHANGED otherVars

SpecWorld == Init /\ [][NextWorld]_vars

\* C4: an extraction reports from_cache=True only if the content of the story
\* (for the world: the content of every story of the world) is the content
\* that was analysed when the cache entry was written.
C4_CacheHitOnlyIfUnchanged ==
    /\ (lastCall.op = "extract_events_from_story" /\ lastCall.from_cache) =>
          analysed[lastCall.story_id] = Some(stories[lastCall.story_id].content)
    /\ (lastCall.op = "extract_events_from_world" /\ lastCall.from_cache) =>
          analysed[WorldCacheKey] = Some([s \in StoryIds |-> stories[s].content])

\* the fingerprints a caller can ask for: of every content, and every stored one
KnownFingerprints ==
    { hash_content(c) : c \in ContentPool }
    \cup { event_analysis_cache[i].story_content_hash :
             i \in 1..Len(event_analysis_cache) }

\* C5: from clear_story_cache(story_id) until the next save_analysis_cache of
\* that story_id, get_analysis_cache(story_id, f) is a miss for every f, and
\* an extraction of the story made in that period does not report from_cache.
C5_MissAfterInvalidate ==
    [][ /\ \A k \in invalidated' : \A f \in KnownFingerprints' :
              get_analysis_cache(event_analysis_cache', k, f) = None
        /\ (/\ lastCall'.op = "extract_events_from_story"
            /\ lastCall'.story_id \in invalidated) => ~lastCall'.from_cache ]_vars

\* a story whose cache was cleared has been extracted again without a cache hit
C5_Witness ==
    /\ lastCall.op = "extract_events_from_story"
    /\ lastCall.after_invalidate
    /\ lastCall.status = "completed"
    /\ ~lastCall.from_cache

\* C7: the story_position of every stored event is the index of a non-blank
\* line of the current content of the story that owns the event.
C7_PositionsOnNonBlankLines ==
    \A i \in 1..Len(events) :
        Contains(NonEmptyIndices(stories[events[i].story_id].content),
                 events[i].story_position)

(***************************************************************************)
(* SpecConc: two extraction threads on the same story.  _extract runs in a *)
(* daemon thread without any lock; every storage call is one step.         *)
(***************************************************************************)
Threads == {"t1", "t2"}
ThreadStory == "s1"

InitConc ==
    /\ IdleCache /\ IdleService /\ IdleResolve /\ IdleGraph /\ IdleDiagram /\ IdleMore
    /\ pc = [t \in Threads |-> "load"]
    /\ t_content = [t \in Threads |-> <<>>]
    /\ t_raw = [t \in Threads |-> None]
    /\ t_wrote = [t \in Threads |-> None]
    /\ lastCall = [op |-> "init"]

concFrame == <<resolveVars, graphVars, diagramVars, moreVars, lastCall, lastPut,
               invalidated, analysed>>

\* story_data = self.storage.load_story(story_id); blank content raises
ThreadLoadStory(t) ==
    /\ pc[t] = "load"
    /\ t_content' = [t_content EXCEPT ![t] = stories[ThreadStory].content]
    /\ pc' = [pc EXCEPT ![t] =
                 IF StripNonEmpty(stories[ThreadStory].content)
                 THEN "check_cache" ELSE "error"]
    /\ UNCHANGED <<event_analysis_cache, stories, events, next_event_id,
                   t_raw, t_wrote, concFrame>>

\* cached = self.storage.get_analysis_cache(story_id, content_hash)
ThreadCheckCache(t, force) ==
    /\ pc[t] = "check_cache"
    /\ LET cached == IF force THEN None
                     ELSE get_analysis_cache(event_analysis_cache, ThreadStory,
                                             hash_content(t_content[t]))
       IN  IF cached # None
           THEN /\ t_raw' = [t_raw EXCEPT ![t] = Some(cached[1].raw_gpt_response)]
                /\ pc' = [pc EXCEPT ![t] = "process_cached"]
           ELSE /\ t_raw' = t_raw
                /\ pc' = [pc EXCEPT ![t] = "call_gpt"]
    /\ UNCHANGED <<event_analysis_cache, stories, events, next_event_id,
                   t_content, t_wrote, concFrame>>

\* the analyzer call and json.loads; gpt = None when either raises
ThreadGptReturns(t, gpt) ==
    /\ pc[t] = "call_gpt"
    /\ t_raw' = [t_raw EXCEPT ![t] = gpt]
    /\ pc' = [pc EXCEPT ![t] = IF gpt = None THEN "error" ELSE "cache_remove"]
    /\ UNCHANGED <<event_analysis_cache, stories, events, next_event_id,
                   t_content, t_wrote, concFrame>>

\* save_analysis_cache, first storage call: remove the old entries
ThreadCacheRemove(t) ==
    /\ pc[t] = "cache_remove"
    /\ event_analysis_cache' = CacheRemove(event_analysis_cache, ThreadStory)
    /\ pc' = [pc EXCEPT ![t] = "cache_insert"]
    /\ UNCHANGED <<stories, events, next_event_id, t_content, t_raw, t_wrote,
                   concFrame>>

\* save_analysis_cache, second storage call: insert the new entry
ThreadCacheInsert(t) ==
    /\ pc[t] = "cache_insert"
    /\ event_analysis_cache' =
           CacheInsert(event_analysis_cache, ThreadStory,
                       hash_content(t_content[t]), t_raw[t][1])
    /\ t_wrote' = [t_wrote EXCEPT ![t] =
                      Some([hash |-> hash_content(t_content[t]),
                            payload |-> t_raw[t][1]])]
    /\ pc' = [pc EXCEPT ![t] = "delete_events"]
    /\ UNCHANGED <<stories, events, next_event_id, t_content, t_raw, concFrame>>

\* self.storage.delete_events_by_story(story_id)
ThreadDeleteEvents(t) ==
    /\ pc[t] = "delete_events"
    /\ events' = delete_events_by_story(events, ThreadStory)
    /\ pc' = [pc EXCEPT ![t] = "process"]
    /\ UNCHANGED <<event_analysis_cache, stories, next_event_id, t_content,
                   t_raw, t_wrote, concFrame>>

\* _process_gpt_result and the callback, after a new analysis or a cache hit
ThreadProcess(t) ==
    /\ pc[t] \in {"process", "process_cached"}
    /\ LET res == process_gpt_result(t_raw[t][1], ThreadStory,
                                     NonEmptyIndices(t_content[t]), next_event_id)
       IN  IF res.raised
           THEN /\ pc' = [pc EXCEPT ![t] = "error"]
                /\ UNCHANGED <<events, next_event_id>>
           ELSE /\ events' = save_events(events, res.events)
                /\ next_event_id' = next_event_id + Len(res.events)
                /\ pc' = [pc EXCEPT ![t] = "completed"]
    /\ UNCHANGED <<event_analysis_cache, stories, t_content, t_raw, t_wrote,
                   concFrame>>

\* PUT /api/stories/<id> while the threads run
ConcUpdateStory(content) ==
    /\ \E t \in Threads : pc[t] = "load"
    /\ stories[ThreadStory].content # content
    /\ stories' = [stories EXCEPT ![ThreadStory].content = content]
    /\ UNCHANGED <<event_analysis_cache, events, next_event_id, threadVars,
                   concFrame>>

NextConc ==
    \/ \E t \in Threads : ThreadLoadStory(t)
    \/ \E t \in Threads, force \in BOOLEAN : ThreadCheckCache(t, force)
    \/ \E t \in Threads, gpt \in GptAnswers : ThreadGptReturns(t, gpt)
    \/ \E t \in Threads : ThreadCacheRemove(t)
    \/ \E t \in Threads : ThreadCacheInsert(t)
    \/ \E t \in Threads : ThreadDeleteEvents(t)
    \/ \E t \in Threads : ThreadProcess(t)
    \/ \E c \in ContentPool : ConcUpdateStory(c)

SpecConc == InitConc /\ [][NextConc]_vars

\* C3: when two threads have analysed the same story and both have finished
\* their cache write, the table holds exactly one entry for the story_id, and
\* it is the whole (fingerprint, payload) written by one of the two threads.
C3_ConcurrentWritesSerialized ==
    (\A t \in Threads : t_wrote[t] # None) =>
        LET entries == SelectSeq(event_analysis_cache,
                                 LAMBDA d : d.story_id = ThreadStory)
        IN  /\ Len(entries) = 1
            /\ \E t \in Threads :
                 /\ entries[1].story_content_hash = t_wrote[t][1].hash
                 /\ entries[1].raw_gpt_response = t_wrote[t][1].payload

(***************************************************************************)
(* Cross-story connections (EventService.get_cross_story_connections)      *)
(***************************************************************************)
\* number of events of the world
MaxGraphEvents == 3

\* str.lower() and str.strip() on names, character by character
RECURSIVE Strip(_)
Strip(name) ==
    IF name = <<>> THEN name
    ELSE IF name[1] \in Whitespace THEN Strip(Tail(name))
    ELSE IF name[Len(name)] \in Whitespace THEN Strip(SubSeq(name, 1, Len(name) - 1))
    ELSE name

\* the stored names: load_entity(cid)['name'], load_location(lid)['name'] and
\* load_world(world_id)['name']; location "lw" is named like the world
WorldName == <<"E", "l">>
EntityName(cid) == <<"h">>
LocationName(lid) == IF lid = "lw" THEN <<"E", "l">> ELSE <<"F", "o">>

\* all attribute ids of the events, in the order a defaultdict gets its keys
RECURSIVE AttributeKeys(_, _, _)
AttributeKeys(evts, field, i) ==
    IF i > Len(evts) THEN <<>>
    ELSE evts[i][field] \o AttributeKeys(evts, field, i + 1)

RECURSIVE FirstOccurrences(_, _)
FirstOccurrences(seq, i) ==
    IF i > Len(seq) THEN <<>>
    ELSE (IF Contains(SubSeq(seq, 1, i - 1), seq[i]) THEN <<>> ELSE <<seq[i]>>)
         \o FirstOccurrences(seq, i + 1)

\* char_to_events[cid] / loc_to_events[lid]: the event once per mention of id
RECURSIVE Bucket(_, _, _, _)
Bucket(evts, field, id, i) ==
    IF i > Len(evts) THEN <<>>
    ELSE [k \in 1..Cardinality({m \in 1..Len(evts[i][field]) :
                                   evts[i][field][m] = id}) |-> evts[i]]
         \o Bucket(evts, field, id, i + 1)

\* tuple(sorted([a, b]))
SortedPair(a, b) == IF a <= b THEN <<a, b>> ELSE <<b, a>>

\* the two nested loops over one bucket; st = [conns, seen_pairs]
RECURSIVE ConnectBucket(_, _, _, _, _, _)
ConnectBucket(evts, i, j, st, relation_type, relation_label) ==
    IF i > Len(evts) THEN st
    ELSE IF j > Len(evts)
    THEN ConnectBucket(evts, i + 1, i + 2, st, relation_type, relation_label)
    ELSE LET pair == SortedPair(evts[i].event_id, evts[j].event_id)
             st2 == IF evts[i].story_id # evts[j].story_id /\ pair \notin st.seen
                    THEN [conns |-> Append(st.conns,
                                       [from_event_id |-> pair[1],
                                        to_event_id |-> pair[2],
                                        relation_type |-> relation_type,
                                        relation_label |-> relation_label]),
                          seen |-> st.seen \cup {pair}]
                    ELSE st
         IN  ConnectBucket(evts, i, j + 1, st2, relation_type, relation_label)

\* for cid, evts in char_to_events.items()
RECURSIVE CharacterConnections(_, _, _, _)
CharacterConnections(evts, keys, k, st) ==
    IF k > Len(keys) THEN st
    ELSE CharacterConnections(evts, keys, k + 1,
             ConnectBucket(Bucket(evts, "characters", keys[k], 1), 1, 2, st,
                           "character",
                           <<"shared character">> \o EntityName(keys[k])))

is_world_location_never(loc_name, world_name) == FALSE

\* the location is the world itself: its name is the world's name
is_world_location(loc_name, world_name) ==
    \/ Lower(loc_name) = world_name
    \/ Strip(Lower(loc_name)) = Strip(world_name)

\* for lid, evts in loc_to_events.items()
RECURSIVE LocationConnections(_, _, _, _, _)
LocationConnections(evts, keys, k, st, world_name) ==
    IF k > Len(keys) THEN st
    ELSE LocationConnections(evts, keys, k + 1,
             IF is_world_location(LocationName(keys[k]), world_name)
             THEN st
             ELSE ConnectBucket(Bucket(evts, "locations", keys[k], 1), 1, 2, st,
                                "location",
                                <<"shared location">> \o LocationName(keys[k])),
             world_name)

\* seen_pairs as it is when the location loop starts
seen_pairs_forgotten(character_state) == {}

seen_pairs_after_characters(character_state) == character_state.seen

\* evts: what list_events_by_world returned; name: the stored world name
get_cross_story_connections(evts, name) ==
    IF Len(evts) < 2 THEN <<>>
    ELSE LET world_name == Lower(name)
             char_keys == FirstOccurrences(AttributeKeys(evts, "characters", 1), 1)
             loc_keys == FirstOccurrences(AttributeKeys(evts, "locations", 1), 1)
             chars == CharacterConnections(evts, char_keys, 1,
                                           [conns |-> <<>>, seen |-> {}])
         IN  LocationConnections(evts, loc_keys, 1,
                 [conns |-> chars.conns,
                  seen |-> seen_pairs_after_characters(chars)],
                 world_name).conns

(***************************************************************************)
(* Relationship diagram (RelationshipDiagram)                              *)
(***************************************************************************)
\* number of stories given to analyze_connections
MaxDiagramStories == 2

\* a Python dict: the sequence of its <<key, value>> items in insertion order
DictHas(d, k) == \E i \in 1..Len(d) : d[i][1] = k
DictGet(d, k) == d[CHOOSE i \in 1..Len(d) : d[i][1] = k][2]
DictSet(d, k, v) ==
    IF DictHas(d, k)
    THEN LET i == CHOOSE n \in 1..Len(d) : d[n][1] = k
         IN  SubSeq(d, 1, i - 1) \o <<<<k, v>>>> \o SubSeq(d, i + 1, Len(d))
    ELSE Append(d, <<k, v>>)

\* entity_connections[a][b] = conn_type and entity_connections[b][a] = conn_type
MarkBoth(ec, a, b, conn_type) ==
    LET ec1 == DictSet(ec, a, DictSet(DictGet(ec, a), b, conn_type))
    IN  DictSet(ec1, b, DictSet(DictGet(ec1, b), a, conn_type))

\* body of the first loop: entities of the same story are connected
StoryStep(ec, ent1_id, ent2_id) ==
    LET ec1 == IF DictHas(ec, ent1_id) THEN ec ELSE DictSet(ec, ent1_id, <<>>)
        ec2 == IF DictHas(ec1, ent2_id) THEN ec1 ELSE DictSet(ec1, ent2_id, <<>>)
    IN  MarkBoth(ec2, ent1_id, ent2_id, "story")

\* body of the second loop: a pair already connected by story gets the
\* combined type
LocationStep(ec, ent1_id, ent2_id) ==
    IF DictHas(ec, ent1_id) /\ DictHas(DictGet(ec, ent1_id), ent2_id)
    THEN MarkBoth(ec, ent1_id, ent2_id, "story+location")
    ELSE ec

\* a statement of the loop body has run (its value is computed) before the
\* next iteration starts
Done(value) == value = value

\* for i, ent1_id in enumerate(ents): for ent2_id in ents[i+1:]
RECURSIVE EntityPairs(_, _, _, _, _)
EntityPairs(ents, i, j, ec, loop) ==
    IF i > Len(ents) THEN ec
    ELSE IF j > Len(ents) THEN EntityPairs(ents, i + 1, i + 2, ec, loop)
    ELSE LET ec1 == IF loop = "story" THEN StoryStep(ec, ents[i], ents[j])
                    ELSE LocationStep(ec, ents[i], ents[j])
         IN  IF Done(ec1) THEN EntityPairs(ents, i, j + 1, ec1, loop) ELSE ec1

RECURSIVE StoryLoop(_, _, _)
StoryLoop(strs, s, ec) ==
    IF s > Len(strs) THEN ec
    ELSE LET ec1 == EntityPairs(strs[s].entities, 1, 2, ec, "story")
         IN  IF Done(ec1) THEN StoryLoop(strs, s + 1, ec1) ELSE ec1

RECURSIVE LocationLoop(_, _, _)
LocationLoop(strs, s, ec) ==
    IF s > Len(strs) THEN ec
    ELSE LET ec1 == IF strs[s].locations # <<>> /\ Len(strs[s].entities) > 1
                    THEN EntityPairs(strs[s].entities, 1, 2, ec, "location")
                    ELSE ec
         IN  IF Done(ec1) THEN LocationLoop(strs, s + 1, ec1) ELSE ec1

analyze_connections(strs) == LocationLoop(strs, 1, StoryLoop(strs, 1, <<>>))

\* Connection(entity1_id, entity2_id, connection_type, color, width)
NewConnection(ent1_id, ent2_id, conn_type) ==
    [entity1_id |-> ent1_id, entity2_id |-> ent2_id, connection_type |-> conn_type,
     color |-> IF conn_type = "story+location" THEN "#FF6B6B" ELSE "#4ECDC4",
     width |-> IF conn_type = "story+location" THEN 3 ELSE 2]

\* conn_key = tuple(sorted([ent1_id, ent2_id])), as the set of the two ids
ConnKey(ent1_id, ent2_id) == {ent1_id, ent2_id}

\* for ent2_id, conn_type in connected.items(); st = [connections, drawn]
RECURSIVE DrawConnected(_, _, _, _, _)
DrawConnected(ent1_id, connected, k, st, positions) ==
    IF k > Len(connected) THEN st
    ELSE LET ent2_id == connected[k][1]
             conn_type == connected[k][2]
             conn_key == ConnKey(ent1_id, ent2_id)
         IN  DrawConnected(ent1_id, connected, k + 1,
                 IF conn_key \in st.drawn THEN st
                 ELSE IF ent1_id \notin positions \/ ent2_id \notin positions
                 THEN [st EXCEPT !.drawn = @ \cup {conn_key}]
                 ELSE [connections |-> Append(st.connections,
                                          NewConnection(ent1_id, ent2_id, conn_type)),
                       drawn |-> st.drawn \cup {conn_key}],
                 positions)

\* for ent1_id, connected in entity_connections.items()
RECURSIVE DrawAll(_, _, _, _)
DrawAll(ec, k, st, positions) ==
    IF k > Len(ec) THEN st
    ELSE DrawAll(ec, k + 1, DrawConnected(ec[k][1], ec[k][2], 1, st, positions),
                 positions)

\* positions: the entity ids that have a position
generate_connections(ec, positions) ==
    DrawAll(ec, 1, [connections |-> <<>>, drawn |-> {}], positions).connections

(***************************************************************************)
(* SpecGraph: the two edge builders applied to bounded inputs              *)
(***************************************************************************)
GraphEventShapes ==
    [story_id : StoryIds,
     characters : {<<>>, <<"c1">>, <<"c1", "c1">>},
     locations : {<<>>, <<"l1">>, <<"lw">>}]

\* event ids are uuids: their order is unrelated to the order of the table;
\* ids ascend or descend along the table
GraphInput(shape, asc) ==
    LET n == Len(shape)
    IN  [i \in 1..n |->
            [event_id |-> IF asc THEN i ELSE n + 1 - i,
             story_id |-> shape[i].story_id,
             characters |-> shape[i].characters,
             locations |-> shape[i].locations]]

DiagramStoryShapes ==
    [entities : {<<>>, <<"e1", "e2">>, <<"e2", "e1">>, <<"e1", "e2", "e3">>,
                 <<"e1", "e1">>},
     locations : {<<>>, <<"l1">>}]

DiagramInputs ==
    UNION { [1..n -> DiagramStoryShapes] : n \in 1..MaxDiagramStories }

InitGraph ==
    /\ IdleCache /\ IdleService /\ IdleThreads /\ IdleResolve /\ IdleMore
    /\ lastCall = [op |-> "init"]
    /\ \/ /\ \E n \in 1..MaxGraphEvents :
                \E shape \in [1..n -> GraphEventShapes], asc \in BOOLEAN :
                    g_events = GraphInput(shape, asc)
          /\ g_world_name = WorldName
          /\ g_out = None
          /\ IdleDiagram
       \/ /\ d_stories \in DiagramInputs
          /\ d_positions \in {{"e1", "e2", "e3"}, {"e1", "e2"}}
          /\ d_entity_connections = None
          /\ d_out = None
          /\ IdleGraph

graphFrame == <<cacheVars, serviceVars, threadVars, resolveVars, moreVars>>

CrossStoryConnections ==
    /\ g_events # <<>>
    /\ g_out = None
    /\ g_out' = Some(get_cross_story_connections(g_events, g_world_name))
    /\ lastCall' = [op |-> "get_cross_story_connections"]
    /\ UNCHANGED <<g_events, g_world_name, diagramVars, graphFrame>>

AnalyzeConnections ==
    /\ d_stories # <<>>
    /\ d_entity_connections = None
    /\ d_entity_connections' = Some(analyze_connections(d_stories))
    /\ lastCall' = [op |-> "analyze_connections"]
    /\ UNCHANGED <<d_stories, d_positions, d_out, graphVars, graphFrame>>

GenerateConnections ==
    /\ d_entity_connections # None
    /\ d_out = None
    /\ d_out' = Some(generate_connections(d_entity_connections[1], d_positions))
    /\ lastCall' = [op |-> "generate_connections"]
    /\ UNCHANGED <<d_stories, d_positions, d_entity_connections, graphVars,
                   graphFrame>>

NextGraph ==
    \/ CrossStoryConnections
    \/ AnalyzeConnections
    \/ GenerateConnections

SpecGraph == InitGraph /\ [][NextGraph]_vars

\* what two events of the input share
SharedCharacters(e1, e2) ==
    { c \in {"c1"} : Contains(e1.characters, c) /\ Contains(e2.characters, c) }
SharedLocations(e1, e2) ==
    { l \in {"l1", "lw"} : Contains(e1.locations, l) /\ Contains(e2.locations, l) }
\* the shared locations that are not the world itself
SharedPlaces(e1, e2) ==
    { l \in SharedLocations(e1, e2) : LocationName(l) # g_world_name }

\* the connections returned for the events at table positions i and j
EdgesBetween(i, j) ==
    { a \in 1..Len(g_out[1]) :
        {g_out[1][a].from_event_id, g_out[1][a].to_event_id}
            = {g_events[i].event_id, g_events[j].event_id} }

\* C8: the edge set is deduplicated: no two cross-story connections with the
\* same unordered event pair and the same relation_type, no two Connection
\* objects for the same unordered entity pair, and exactly one edge for a pair
\* of events that shares both a character and a location.
C8_EdgesDeduplicated ==
    /\ g_out # None =>
         /\ \A a, b \in 1..Len(g_out[1]) :
              (/\ a # b
               /\ {g_out[1][a].from_event_id, g_out[1][a].to_event_id}
                    = {g_out[1][b].from_event_id, g_out[1][b].to_event_id})
              => g_out[1][a].relation_type # g_out[1][b].relation_type
         /\ \A i, j \in 1..Len(g_events) :
              (/\ i < j
               /\ g_events[i].story_id # g_events[j].story_id
               /\ SharedCharacters(g_events[i], g_events[j]) # {}
               /\ SharedPlaces(g_events[i], g_events[j]) # {})
              => Cardinality(EdgesBetween(i, j)) = 1
    /\ d_out # None =>
         \A a, b \in 1..Len(d_out[1]) :
             a # b => {d_out[1][a].entity1_id, d_out[1][a].entity2_id}
                        # {d_out[1][b].entity1_id, d_out[1][b].entity2_id}

\* two events of different stories that share a character and a location
\* have been connected
C8_Witness ==
    /\ g_out # None
    /\ \E i, j \in 1..Len(g_events) :
         /\ i < j
         /\ g_events[i].story_id # g_events[j].story_id
         /\ SharedCharacters(g_events[i], g_events[j]) # {}
         /\ SharedPlaces(g_events[i], g_events[j]) # {}
         /\ EdgesBetween(i, j) # {}

KindsOfType(relation_type) ==
    CASE relation_type = "character" -> {"character"}
      [] relation_type = "location" -> {"location"}
      [] OTHER -> {"character", "location"}

\* C9: the single edge of a pair connected through more than one kind of
\* shared attribute is labelled with all the kinds: a cross-story connection
\* carries the kinds of everything the two events share, a diagram connection
\* is "story+location" when a story with locations holds both entities.
C9_LabelIsUnionOfKinds ==
    /\ g_out # None =>
         \A i, j \in 1..Len(g_events) : \A a \in EdgesBetween(i, j) :
             KindsOfType(g_out[1][a].relation_type)
               = {k \in {"character"} : SharedCharacters(g_events[i], g_events[j]) # {}}
                 \cup {k \in {"location"} : SharedPlaces(g_events[i], g_events[j]) # {}}
    /\ d_out # None =>
         \A a \in 1..Len(d_out[1]) :
             (d_out[1][a].connection_type = "story+location")
               <=> \E s \in 1..Len(d_stories) :
                     /\ Contains(d_stories[s].entities, d_out[1][a].entity1_id)
                     /\ Contains(d_stories[s].entities, d_out[1][a].entity2_id)
                     /\ d_stories[s].locations # <<>>

\* C10: no connection between two events whose only shared attribute is a
\* location named like the world.
C10_NoEdgeFromWorldLocation ==
    g_out # None =>
        \A i, j \in 1..Len(g_events) :
            (/\ i # j
             /\ SharedCharacters(g_events[i], g_events[j]) = {}
             /\ SharedLocations(g_events[i], g_events[j]) # {}
             /\ \A l \in SharedLocations(g_events[i], g_events[j]) :
                    LocationName(l) = g_world_name)
            => EdgesBetween(i, j) = {}

\* two events of different stories whose only shared attribute is the world
\* location have been given to get_cross_story_connections
C10_Witness ==
    /\ g_out # None
    /\ \E i, j \in 1..Len(g_events) :
         /\ g_events[i].story_id # g_events[j].story_id
         /\ SharedCharacters(g_events[i], g_events[j]) = {}
         /\ SharedLocations(g_events[i], g_events[j]) = {"lw"}
         /\ EdgesBetween(i, j) = {}

(***************************************************************************)
(* StoryLinker                                                             *)
(***************************************************************************)
\* number of stories given to link_stories
MaxLinkStories == 3

\* entity_stories[id] / location_stories[id] / time_cone_stories[id]: the ids
\* of the stories whose attribute list names id
AttributeStories(strs, attr, id) ==
    { strs[j].story_id : j \in { k \in 1..Len(strs) : Contains(strs[k][attr], id) } }

\* link_by_entities, link_by_locations, link_by_time_cones: for the story at
\* position i, the set linked_story_ids
link_by(strs, attr, i) ==
    UNION { { other_story_id \in AttributeStories(strs, attr, strs[i][attr][a]) :
                other_story_id # strs[i].story_id }
            : a \in 1..Len(strs[i][attr]) }

\* a link_stories that keeps the links of the last enabled criterion only
link_stories_overwrite(strs, link_by_entities, link_by_locations, link_by_time) ==
    [i \in 1..Len(strs) |->
        [strs[i] EXCEPT !.linked_stories =
            @ \cup (IF link_by_time THEN link_by(strs, "time_cones", i)
                    ELSE IF link_by_locations THEN link_by(strs, "locations", i)
                    ELSE IF link_by_entities THEN link_by(strs, "entities", i)
                    ELSE {})]]

\* link_stories: all_links collects the links of the enabled criteria and
\* story.link_story adds each linked id that is not yet in linked_stories.
\* linked_stories is a list without duplicates filled in the iteration order
\* of a Python set, which is unspecified: it is the set of its elements here
link_stories(strs, link_by_entities, link_by_locations, link_by_time) ==
    [i \in 1..Len(strs) |->
        LET all_links ==
                (IF link_by_entities THEN link_by(strs, "entities", i) ELSE {})
                \cup (IF link_by_locations THEN link_by(strs, "locations", i) ELSE {})
                \cup (IF link_by_time THEN link_by(strs, "time_cones", i) ELSE {})
        IN  [strs[i] EXCEPT !.linked_stories = @ \cup all_links]]

(***************************************************************************)
(* SpecLink: link_stories applied to bounded lists of new stories          *)
(***************************************************************************)
\* Story(...): linked_stories starts empty; story_id is a uuid4, here the
\* position of the story in the list
LinkStoryShapes ==
    [entities : {<<>>, <<"x1">>, <<"x1", "x1">>},
     locations : {<<>>, <<"l1">>},
     time_cones : {<<>>, <<"t1">>}]

NewStory(shape, story_id) ==
    [story_id |-> story_id,
     entities |-> shape.entities,
     locations |-> shape.locations,
     time_cones |-> shape.time_cones,
     linked_stories |-> {}]

InitLink ==
    /\ IdleCache /\ IdleService /\ IdleThreads /\ IdleResolve
    /\ IdleGraph /\ IdleDiagram /\ IdleTimeline /\ IdleLayout /\ IdleStore
    /\ lastCall = [op |-> "init"]
    /\ l_linked = FALSE
    /\ \E n \in 1..MaxLinkStories : \E shape \in [1..n -> LinkStoryShapes] :
           l_stories = [i \in 1..n |-> NewStory(shape[i], i)]

linkFrame == <<cacheVars, serviceVars, threadVars, resolveVars, graphVars,
               diagramVars, timelineVars, layoutVars, storeVars>>

LinkStories(link_by_entities, link_by_locations, link_by_time) ==
    /\ l_stories # <<>>
    /\ ~l_linked
    /\ l_stories' = link_stories(l_stories, link_by_entities, link_by_locations,
                                 link_by_time)
    /\ l_linked' = TRUE
    /\ lastCall' = [op |-> "link_stories", link_by_entities |-> link_by_entities,
                    link_by_locations |-> link_by_locations,
                    link_by_time |-> link_by_time]
    /\ UNCHANGED linkFrame

NextLink ==
    \E link_by_entities, link_by_locations, link_by_time \in BOOLEAN :
        LinkStories(link_by_entities, link_by_locations, link_by_time)

SpecLink == InitLink /\ [][NextLink]_vars

\* SpecRelations: the three relation builders (event connections, entity
\* connections, story links), each on its own inputs
InitRelations == InitGraph \/ InitLink

NextRelations == NextGraph \/ NextLink

SpecRelations == InitRelations /\ [][NextRelations]_vars

\* C11: no self-pair is emitted: no cross-story connection from an event to
\* itself, no entity connected to itself, no story linked to itself.
C11_NoSelfPairs ==
    /\ g_out # None =>
         \A a \in 1..Len(g_out[1]) :
             g_out[1][a].from_event_id # g_out[1][a].to_event_id
    /\ d_entity_connections # None =>
         \A k \in 1..Len(d_entity_connections[1]) :
             ~DictHas(d_entity_connections[1][k][2], d_entity_connections[1][k][1])
    /\ l_linked =>
         \A i \in 1..Len(l_stories) :
             l_stories[i].story_id \notin l_stories[i].linked_stories

\* two stories of the list share an attribute among the enabled criteria
SharesAttribute(A, B, attr) ==
    \E a \in 1..Len(A[attr]), b \in 1..Len(B[attr]) : A[attr][a] = B[attr][b]

SharesEnabled(A, B) ==
    \/ lastCall.link_by_entities /\ SharesAttribute(A, B, "entities")
    \/ lastCall.link_by_locations /\ SharesAttribute(A, B, "locations")
    \/ lastCall.link_by_time /\ SharesAttribute(A, B, "time_cones")

\* C12: after link_stories on new stories, B is in A.linked_stories exactly
\* when A and B share an entity, location or time cone among the enabled
\* criteria, and B is linked from A exactly when A is linked from B.
C12_LinksAreSharedAttributes ==
    l_linked =>
        \A i, j \in 1..Len(l_stories) :
            i # j =>
                /\ (l_stories[j].story_id \in l_stories[i].linked_stories)
                     <=> SharesEnabled(l_stories[i], l_stories[j])
                /\ (l_stories[j].story_id \in l_stories[i].linked_stories)
                     <=> (l_stories[i].story_id \in l_stories[j].linked_stories)

\* three stories were linked by entities only: two share an entity and are
\* linked, the third shares only a location with them and is not
C12_Witness ==
    /\ l_linked
    /\ lastCall.link_by_entities /\ ~lastCall.link_by_locations
    /\ \E i, j, k \in 1..Len(l_stories) :
         /\ i # j /\ j # k /\ i # k
         /\ l_stories[j].story_id \in l_stories[i].linked_stories
         /\ SharesAttribute(l_stories[i], l_stories[k], "locations")
         /\ l_stories[k].story_id \notin l_stories[i].linked_stories

(***************************************************************************)
(* build_timeline                                                          *)
(***************************************************************************)
\* number of events list_events_by_world returns to build_timeline
MaxTimelineEvents == 3

\* sorted(year_groups.keys()): the distinct years in ascending order
RECURSIVE SortedYears(_)
SortedYears(years) ==
    IF years = {} THEN <<>>
    ELSE LET least == CHOOSE y \in years : \A z \in years : y <= z
         IN  <<least>> \o SortedYears(years \ {least})

\* an insertion that puts evt before the events of the same story_position
insert_before_equal(sorted, evt) ==
    LET n == Cardinality({k \in 1..Len(sorted) :
                             sorted[k].story_position < evt.story_position})
    IN  SubSeq(sorted, 1, n) \o <<evt>> \o SubSeq(sorted, n + 1, Len(sorted))

\* one step of a stable sort by story_position: evt goes behind every event
\* whose story_position is not greater
insert_by_position(sorted, evt) ==
    LET n == Cardinality({k \in 1..Len(sorted) :
                             sorted[k].story_position <= evt.story_position})
    IN  SubSeq(sorted, 1, n) \o <<evt>> \o SubSeq(sorted, n + 1, Len(sorted))

\* sorted(year_groups[year], key=lambda e: e.get('story_position', 0))
RECURSIVE SortedByPosition(_, _)
SortedByPosition(group, n) ==
    IF n = 0 THEN <<>>
    ELSE insert_by_position(SortedByPosition(group, n - 1), group[n])

\* year_groups[year]: the events of the year in the order of the list
YearGroup(evts, year) == SelectSeq(evts, LAMBDA e : e.year = year)

\* era of the last event of the group that has one
LastEra(year_events, i) ==
    LET with_era == {k \in i..Len(year_events) : year_events[k].era # ""}
    IN  IF with_era = {} THEN ""
        ELSE year_events[CHOOSE k \in with_era : \A l \in with_era : l <= k].era

\* era of the first event of the sorted group that has one
RECURSIVE FirstEra(_, _)
FirstEra(year_events, i) ==
    IF i > Len(year_events) THEN ""
    ELSE IF year_events[i].era # "" THEN year_events[i].era
    ELSE FirstEra(year_events, i + 1)

\* years_list
YearsList(evts) ==
    LET sorted_years == SortedYears({evts[i].year : i \in 1..Len(evts)})
    IN  [y \in 1..Len(sorted_years) |->
            LET year_events == SortedByPosition(YearGroup(evts, sorted_years[y]),
                                   Len(YearGroup(evts, sorted_years[y])))
            IN  [year |-> sorted_years[y],
                 era |-> FirstEra(year_events, 1),
                 events |-> year_events]]

\* intra-story connections: one entry per connection of every event, in the
\* order of the events
RECURSIVE ExplicitConnections(_, _)
ExplicitConnections(evts, i) ==
    IF i > Len(evts) THEN <<>>
    ELSE [c \in 1..Len(evts[i].connections) |->
             [from_event_id |-> evts[i].event_id,
              to_event_id |-> evts[i].connections[c].target_event_id,
              relation_type |-> evts[i].connections[c].relation_type,
              relation_label |-> <<evts[i].connections[c].relation_label>>]]
         \o ExplicitConnections(evts, i + 1)

\* build_timeline: world is load_world(world_id), evts is
\* list_events_by_world(world_id)
build_timeline(world, evts) ==
    IF world = None
    THEN [years |-> <<>>, connections |-> <<>>]
    ELSE [years |-> YearsList(evts),
          connections |-> ExplicitConnections(evts, 1)
                          \o get_cross_story_connections(evts, world[1])]

(***************************************************************************)
(* SpecTimeline: build_timeline on bounded lists of stored events          *)
(***************************************************************************)
\* the stored events: every event involves character c1; an event may hold
\* one connection of type "character" to another event
TimelineEventShapes ==
    { [year |-> yp[1], story_position |-> yp[2], story_id |-> s,
       era |-> ec[1], connected |-> ec[2]] :
        yp \in {<<3, 9>>, <<5, 1>>, <<5, 3>>},
        s \in StoryIds,
        ec \in {<<"", FALSE>>, <<"A", FALSE>>, <<"B", FALSE>>, <<"", TRUE>>} }

TimelineEvent(shape, event_id) ==
    [event_id |-> event_id,
     story_id |-> shape.story_id,
     year |-> shape.year,
     era |-> shape.era,
     story_position |-> shape.story_position,
     characters |-> <<"c1">>,
     locations |-> <<>>,
     connections |->
        IF shape.connected
        THEN <<[target_event_id |-> IF event_id = 1 THEN 2 ELSE 1,
                relation_type |-> "character",
                relation_label |-> ""]>>
        ELSE <<>>]

InitTimeline ==
    /\ IdleCache /\ IdleService /\ IdleThreads /\ IdleResolve
    /\ IdleGraph /\ IdleDiagram /\ IdleLink /\ IdleLayout /\ IdleStore
    /\ lastCall = [op |-> "init"]
    /\ tl_world \in {None, Some(WorldName)}
    /\ \E n \in 1..MaxTimelineEvents : \E shape \in [1..n -> TimelineEventShapes] :
           tl_events = [i \in 1..n |-> TimelineEvent(shape[i], i)]
    /\ tl_out = None

BuildTimeline ==
    /\ tl_events # <<>>
    /\ tl_out = None
    /\ tl_out' = Some(build_timeline(tl_world, tl_events))
    /\ lastCall' = [op |-> "build_timeline"]
    /\ UNCHANGED <<tl_world, tl_events, linkVars, cacheVars, serviceVars,
                   threadVars, resolveVars, graphVars, diagramVars, layoutVars,
                   storeVars>>

NextTimeline == BuildTimeline

SpecTimeline == InitTimeline /\ [][NextTimeline]_vars

\* position of the event with the given id in the list storage returned
StoredIndex(event_id) ==
    CHOOSE i \in 1..Len(tl_events) : tl_events[i].event_id = event_id

\* C13: the year groups are in strictly ascending order of year; inside a
\* group the events are in ascending order of story_position, events of equal
\* story_position in the order in which storage returned them.
C13_TimelineOrdered ==
    (tl_out # None /\ tl_world # None) =>
        LET years == tl_out[1].years
        IN  /\ \A a, b \in 1..Len(years) : a < b => years[a].year < years[b].year
            /\ \A i \in 1..Len(tl_events) :
                 \E a \in 1..Len(years) :
                     /\ years[a].year = tl_events[i].year
                     /\ \E k \in 1..Len(years[a].events) :
                            years[a].events[k].event_id = tl_events[i].event_id
            /\ \A a \in 1..Len(years) :
                 \A k, l \in 1..Len(years[a].events) :
                     k < l =>
                       LET e1 == years[a].events[k]
                           e2 == years[a].events[l]
                       IN  /\ e1.year = years[a].year
                           /\ e1.story_position <= e2.story_position
                           /\ e1.story_position = e2.story_position
                                => StoredIndex(e1.event_id) < StoredIndex(e2.event_id)

\* a timeline was built in which a year group holds two events of equal
\* story_position and, behind them, an event that storage returned first
C13_Witness ==
    /\ tl_out # None /\ tl_world # None
    /\ \E a \in 1..Len(tl_out[1].years) :
         LET evts == tl_out[1].years[a].events
         IN  /\ Len(evts) = 3
             /\ evts[1].story_position = evts[2].story_position
             /\ evts[2].story_position < evts[3].story_position
             /\ StoredIndex(evts[3].event_id) < StoredIndex(evts[1].event_id)

\* C24: every year group shows the era of the first event, in the sorted order
\* of the group, whose era is not empty, and an empty era when no event of the
\* group has one.
C24_EraOfFirstEventWithEra ==
    (tl_out # None /\ tl_world # None) =>
        \A a \in 1..Len(tl_out[1].years) :
            LET group == tl_out[1].years[a]
            IN  \/ /\ group.era = ""
                   /\ \A k \in 1..Len(group.events) : group.events[k].era = ""
                \/ \E k \in 1..Len(group.events) :
                       /\ group.events[k].era # ""
                       /\ group.era = group.events[k].era
                       /\ \A j \in 1..(k - 1) : group.events[j].era = ""

\* a year group took its era from an event that sorting moved before an
\* event with another era, which storage had returned first
C24_Witness ==
    /\ tl_out # None /\ tl_world # None
    /\ \E a \in 1..Len(tl_out[1].years) :
         LET group == tl_out[1].years[a]
         IN  \E k, l \in 1..Len(group.events) :
                /\ k < l
                /\ group.events[k].era = group.era
                /\ group.events[l].era \notin {"", group.era}
                /\ StoredIndex(group.events[l].event_id)
                     < StoredIndex(group.events[k].event_id)

\* C14: the connection list of the timeline has no two entries with the same
\* unordered event pair and the same relation_type.
C14_TimelineConnectionsUnique ==
    tl_out # None =>
        LET conns == tl_out[1].connections
        IN  \A a, b \in 1..Len(conns) :
                (/\ a # b
                 /\ {conns[a].from_event_id, conns[a].to_event_id}
                      = {conns[b].from_event_id, conns[b].to_event_id})
                => conns[a].relation_type # conns[b].relation_type

(***************************************************************************)
(* Event connections: the Event methods and the two routes that write them *)
(***************************************************************************)
\* number of connections in the body of one PUT /api/events/<id>
MaxConnections == 2

\* Event.remove_connection: drops all connections to the target
remove_connection(event, target_event_id) ==
    [event EXCEPT !.connections =
        SelectSeq(@, LAMBDA c : c.target_event_id # target_event_id)]

\* storage.load_event: the stored event with the id, or None
load_event(tbl, event_id) ==
    IF \E i \in 1..Len(tbl) : tbl[i].event_id = event_id
    THEN Some(tbl[CHOOSE i \in 1..Len(tbl) : tbl[i].event_id = event_id])
    ELSE None

\* storage.save_event of an event whose id is stored: the record is replaced
replace_event(tbl, event) ==
    [i \in 1..Len(tbl) |-> IF tbl[i].event_id = event.event_id THEN event ELSE tbl[i]]

\* storage.update_event(event_id, {'connections': connections})
update_event_connections(tbl, event_id, connections) ==
    [i \in 1..Len(tbl) |->
        IF tbl[i].event_id = event_id
        THEN [tbl[i] EXCEPT !.connections = connections]
        ELSE tbl[i]]

\* POST /api/events/<id>/connections: the new table, unchanged when an event
\* is missing or the connection exists
add_event_connection(tbl, event_id, target_event_id, relation_type, relation_label) ==
    LET existing == load_event(tbl, event_id)
        target == load_event(tbl, target_event_id)
    IN  IF existing = None \/ target = None THEN tbl
        ELSE LET connections == existing[1].connections
                 new_conn == [target_event_id |-> target_event_id,
                              relation_type |-> relation_type,
                              relation_label |-> relation_label]
             IN  IF \E c \in 1..Len(connections) :
                        /\ connections[c].target_event_id = new_conn.target_event_id
                        /\ connections[c].relation_type = new_conn.relation_type
                 THEN tbl
                 ELSE update_event_connections(tbl, event_id,
                                               Append(connections, new_conn))

(***************************************************************************)
(* SpecConn: two stored events and the operations on their connections     *)
(***************************************************************************)
ConnectionTypes == {"temporal", "causal"}

StoredEventIds == {0, 1}

\* the connection lists a PUT body can carry
ConnectionLists ==
    UNION { [1..n -> [target_event_id : StoredEventIds,
                      relation_type : ConnectionTypes,
                      relation_label : {""}]] : n \in 0..MaxConnections }

InitConn ==
    /\ IdleCache /\ IdleThreads /\ IdleResolve /\ IdleGraph /\ IdleDiagram
    /\ IdleMore
    /\ stories = [s \in StoryIds |->
                    [content |-> <<"a", "NL", "NL", "a">>, visibility |-> "public"]]
    /\ events = [i \in 1..2 |->
                    NewEvent([title |-> <<"t", "1">>, description |-> <<"d">>,
                              characters |-> <<>>, locations |-> <<>>],
                             "s1", 0, i - 1)]
    /\ next_event_id = 2
    /\ analysed = [k \in CacheKeys |-> None]
    /\ lastCall = [op |-> "init"]

connFrame == <<cacheVars, stories, next_event_id, analysed, otherVars>>

\* Event.from_dict(load_event(id)).add_connection(...) and save_event
EventAddConnection(event_id, target_event_id, relation_type) ==
    /\ load_event(events, event_id) # None
    /\ events' = replace_event(events,
                     add_connection(load_event(events, event_id)[1],
                                    target_event_id, relation_type, ""))
    /\ lastCall' = [op |-> "add_connection"]
    /\ UNCHANGED connFrame

EventRemoveConnection(event_id, target_event_id) ==
    /\ load_event(events, event_id) # None
    /\ events' = replace_event(events,
                     remove_connection(load_event(events, event_id)[1],
                                       target_event_id))
    /\ lastCall' = [op |-> "remove_connection"]
    /\ UNCHANGED connFrame

PostConnection(event_id, target_event_id, relation_type) ==
    /\ events' = add_event_connection(events, event_id, target_event_id,
                                      relation_type, "")
    /\ lastCall' = [op |-> "add_event_connection"]
    /\ UNCHANGED connFrame

\* PUT /api/events/<id> with a body that carries connections
PutConnections(event_id, connections) ==
    /\ load_event(events, event_id) # None
    /\ events' = update_event_connections(events, event_id, connections)
    /\ lastCall' = [op |-> "update_event"]
    /\ UNCHANGED connFrame

NextConn ==
    \/ \E id \in StoredEventIds, target \in StoredEventIds, t \in ConnectionTypes :
           EventAddConnection(id, target, t)
    \/ \E id \in StoredEventIds, target \in StoredEventIds :
           EventRemoveConnection(id, target)
    \/ \E id \in StoredEventIds \cup {2}, target \in StoredEventIds \cup {2},
          t \in ConnectionTypes :
           PostConnection(id, target, t)
    \/ \E id \in StoredEventIds, connections \in ConnectionLists :
           PutConnections(id, connections)

SpecConn == InitConn /\ [][NextConn]_vars

\* C15: no event holds two connections with the same target_event_id and
\* relation_type, whatever sequence of add_connection, remove_connection,
\* POST connections and PUT event ran.
C15_ConnectionsUniquePerEvent ==
    \A i \in 1..Len(events) :
        \A a, b \in 1..Len(events[i].connections) :
            (/\ a # b
             /\ events[i].connections[a].target_event_id
                  = events[i].connections[b].target_event_id)
            => events[i].connections[a].relation_type
                 # events[i].connections[b].relation_type

(***************************************************************************)
(* Analyzer-result processing on its own                                   *)
(***************************************************************************)
MaxRawEvents == 2

\* the events an analyzer result can carry: title and description empty, blank
\* or filled; names that resolve ("H" is entity c1, "Fo" location l1) or not
\* ("z"); a story_index with or without an entry in story_map
RawEventShapes ==
    [text : {<<<<>>, <<>>>>, <<<<" ">>, <<>>>>, <<<<"t">>, <<>>>>, <<<<>>, <<"d">>>>},
     names : {<<<<>>, <<>>>>, <<<<<<"H">>>>, <<>>>>, <<<<<<"z">>>>, <<>>>>,
              <<<<<<"z">>>>, <<<<"F", "o">>>>>>},
     story_index : {0, 5}]

RawEvent(shape) ==
    [story_index |-> shape.story_index,
     title |-> shape.text[1],
     description |-> shape.text[2],
     story_position |-> 0,
     characters |-> shape.names[1],
     locations |-> shape.names[2]]

\* the connections of an analyzer result: at most one, with indices inside and
\* outside the events list
RawConnectionLists ==
    {<<>>} \cup
    { <<[from_event_index |-> f, to_event_index |-> t, relation_type |-> r,
         relation_label |-> ""]>> :
        f \in -1..MaxRawEvents, t \in -1..MaxRawEvents,
        r \in {"character", "friendship"} }

InitProcess == Init

processFrame == <<cacheVars, stories, analysed, otherVars>>

\* _process_gpt_result(raw_result, "s1", ...), called once on the empty
\* events table: an exception of the connection loop leaves before the save loop
ProcessStory(raw_result) ==
    LET res == process_gpt_result(raw_result, "s1",
                   NonEmptyIndices(stories["s1"].content), next_event_id)
    IN  /\ lastCall.op = "init"
        /\ IF res.raised
           THEN /\ UNCHANGED <<events, next_event_id>>
                /\ lastCall' = [op |-> "_process_gpt_result",
                                raw_result |-> raw_result, raised |-> TRUE,
                                returned |-> <<>>]
           ELSE /\ events' = save_events(events, res.events)
                /\ next_event_id' = next_event_id + Len(res.events)
                /\ lastCall' = [op |-> "_process_gpt_result",
                                raw_result |-> raw_result, raised |-> FALSE,
                                returned |-> res.events]
        /\ UNCHANGED processFrame

\* _process_combined_gpt_result(raw_result, world, stories, ...)
ProcessCombined(raw_result) ==
    LET res == process_combined_gpt_result(raw_result, stories,
                   list_stories(stories), next_event_id)
    IN  /\ lastCall.op = "init"
        /\ events' = save_events(events, res.events)
        /\ next_event_id' = next_event_id + Len(res.events)
        /\ lastCall' = [op |-> "_process_combined_gpt_result",
                        raw_result |-> raw_result, raised |-> FALSE,
                        returned |-> res.events]
        /\ UNCHANGED processFrame

NextProcess ==
    /\ lastCall.op = "init"
    /\ \E n \in 0..MaxRawEvents : \E shape \in [1..n -> RawEventShapes] :
         \E conns \in RawConnectionLists :
           LET raw_result == [events |-> [i \in 1..n |-> RawEvent(shape[i])],
                              connections |-> conns]
           IN  \/ ProcessStory(raw_result)
               \/ ProcessCombined(raw_result)

SpecProcess == InitProcess /\ [][NextProcess]_vars

Processed ==
    lastCall.op \in {"_process_gpt_result", "_process_combined_gpt_result"}

\* the event at index idx of the result passes the filters of the loop that ran
Accepted(idx) ==
    /\ idx \in 0..(Len(lastCall.raw_result.events) - 1)
    /\ ~IsEmptyEvent(lastCall.raw_result.events[idx + 1])
    /\ lastCall.op = "_process_combined_gpt_result" =>
          lastCall.raw_result.events[idx + 1].story_index
              \in StoryMapIndices(stories, list_stories(stories))

\* the id given to the accepted event at index idx of the result
EventIdOf(idx) == Cardinality({j \in 0..(idx - 1) : Accepted(j)})

\* C16: a connection of the analyzer result whose from_event_index or
\* to_event_index is not the index of an accepted event (outside the events
\* list, negative, or of a discarded event) is dropped and processing finishes
\* normally: no exception, every accepted event saved, and the connections
\* stored are those between accepted events only.
C16_BadConnectionDropped ==
    Processed =>
        /\ ~lastCall.raised
        /\ Len(events) =
             Cardinality({i \in 0..(Len(lastCall.raw_result.events) - 1) : Accepted(i)})
        /\ \A e \in 1..Len(events) : \A c \in 1..Len(events[e].connections) :
              \E k \in 1..Len(lastCall.raw_result.connections) :
                 LET conn == lastCall.raw_result.connections[k]
                 IN  /\ Accepted(conn.from_event_index)
                     /\ Accepted(conn.to_event_index)
                     /\ EventIdOf(conn.from_event_index) = events[e].event_id
                     /\ EventIdOf(conn.to_event_index)
                          = events[e].connections[c].target_event_id

\* C17: every connection stored on an event by analyzer-result processing has
\* a relation_type in {character, location, causal, temporal}.
C17_RelationTypeValidated ==
    Processed =>
        \A e \in 1..Len(events) : \A c \in 1..Len(events[e].connections) :
            events[e].connections[c].relation_type
                \in {"character", "location", "causal", "temporal"}

\* C18: an event of the analyzer result is kept only if, after its unresolved
\* character and location names are dropped, a valid attribute remains: every
\* saved event has a character or a location.
C18_KeptOnlyWithValidAttribute ==
    Processed =>
        \A e \in 1..Len(events) :
            events[e].characters # <<>> \/ events[e].locations # <<>>

\* C19: an analyzer event whose title and description are both empty or
\* whitespace is neither saved nor returned, and every other event of the
\* result is saved.
C19_OnlyBlankEventsDiscarded ==
    Processed =>
        /\ \A e \in 1..Len(events) :
              StripNonEmpty(events[e].title) \/ StripNonEmpty(events[e].description)
        /\ \A e \in 1..Len(lastCall.returned) :
              \/ StripNonEmpty(lastCall.returned[e].title)
              \/ StripNonEmpty(lastCall.returned[e].description)
        /\ Len(events) =
             Cardinality({i \in 1..Len(lastCall.raw_result.events) :
                             ~IsEmptyEvent(lastCall.raw_result.events[i])})

(***************************************************************************)
(* Force-directed layout (RelationshipDiagram.force_directed_layout)       *)
(***************************************************************************)
MaxLayoutEntities == 2
MaxIterations == 2

\* Coordinates, forces and the temperature are floats in the source.  They are
\* modelled in fixed point: coordinates and forces as integers, math.sqrt as
\* the integer square root, / as the quotient truncated towards zero, and the
\* temperature in hundredths.
margin == 100

Quot(a, b) == IF a < 0 THEN -((-a) \div b) ELSE a \div b

\* the largest r with r * r <= n, searched between lo and hi
RECURSIVE IsqrtBetween(_, _, _)
IsqrtBetween(n, lo, hi) ==
    IF lo >= hi THEN lo
    ELSE LET mid == (lo + hi + 1) \div 2
         IN  IF mid * mid <= n THEN IsqrtBetween(n, mid, hi)
             ELSE IsqrtBetween(n, lo, mid - 1)

Isqrt(n) == IsqrtBetween(n, 0, IF n < 46340 THEN n ELSE 46340)

\* math.sqrt(dx*dx + dy*dy) or 1
Length(dx, dy) ==
    LET d == Isqrt(dx * dx + dy * dy) IN IF d = 0 THEN 1 ELSE d

\* k * k of the source, k = math.sqrt(area / len(entities))
OptimalSquared(canvas, n) == (canvas[1] * canvas[2]) \div n

\* the repulsive force that the pair (a, b) puts on a: (dx / distance) * force
\* and (dy / distance) * force with force = k * k / distance
Repulsion(positions, a, b, kk) ==
    LET dx == positions[a][1] - positions[b][1]
        dy == positions[a][2] - positions[b][2]
        distance == Length(dx, dy)
        force == kk \div distance
    IN  <<Quot(dx * force, distance), Quot(dy * force, distance)>>

\* the attractive force of a connection ent1 -> ent2, subtracted from ent1's
\* displacement: force = distance * distance / k
Attraction(positions, a, b, kk) ==
    LET dx == positions[a][1] - positions[b][1]
        dy == positions[a][2] - positions[b][2]
        distance == Length(dx, dy)
        force == (distance * distance) \div Isqrt(kk)
    IN  <<Quot(dx * force, distance), Quot(dy * force, distance)>>

RECURSIVE SumVectors(_, _)
SumVectors(vectors, i) ==
    IF i > Len(vectors) THEN <<0, 0>>
    ELSE LET rest == SumVectors(vectors, i + 1)
         IN  <<vectors[i][1] + rest[1], vectors[i][2] + rest[2]>>

\* the entries of a set of pairs as a sequence
RECURSIVE PairsSeq(_)
PairsSeq(pairs) ==
    IF pairs = {} THEN <<>>
    ELSE LET p == CHOOSE q \in pairs : TRUE
         IN  <<p>> \o PairsSeq(pairs \ {p})

\* displacements[ent] at the end of the two force loops of one iteration
Displacement(positions, n, connections, kk, ent) ==
    LET after == SumVectors([j \in 1..(n - ent) |->
                                Repulsion(positions, ent, ent + j, kk)], 1)
        before == SumVectors([j \in 1..(ent - 1) |->
                                Repulsion(positions, j, ent, kk)], 1)
        linked == PairsSeq({c \in connections :
                               c[1] = ent /\ c[2] \in 1..n})
        pull == SumVectors([j \in 1..Len(linked) |->
                               Attraction(positions, ent, linked[j][2], kk)], 1)
    IN  <<after[1] - before[1] - pull[1], after[2] - before[2] - pull[2]>>

\* (d / displacement) * min(displacement, temperature)
Limited(d, displacement, temperature100) ==
    IF displacement * 100 <= temperature100 THEN d
    ELSE Quot(d * temperature100, displacement * 100)

clamp_none(lowest, highest, value) == value

\* max(margin, min(canvas - margin, value))
clamp(lowest, highest, value) ==
    LET least == IF value < highest THEN value ELSE highest
    IN  IF lowest > least THEN lowest ELSE least

\* the loop that applies the displacements, from entity ent on
RECURSIVE ApplyFrom(_, _, _, _, _, _)
ApplyFrom(canvas, n, connections, positions, temperature100, ent) ==
    IF ent > n THEN <<>>
    ELSE LET d == Displacement(positions, n, connections,
                               OptimalSquared(canvas, n), ent)
             displacement == Length(d[1], d[2])
         IN  << <<clamp(margin, canvas[1] - margin,
                        positions[ent][1] + Limited(d[1], displacement, temperature100)),
                  clamp(margin, canvas[2] - margin,
                        positions[ent][2] + Limited(d[2], displacement, temperature100))>> >>
             \o ApplyFrom(canvas, n, connections, positions, temperature100, ent + 1)

\* one pass of the loop over range(iterations)
Iteration(canvas, n, connections, positions, temperature100) ==
    ApplyFrom(canvas, n, connections, positions, temperature100, 1)

\* positions and temperature after the given number of iterations; the values
\* of one pass are bound before the next pass starts
RECURSIVE Iterate(_, _, _, _, _, _)
Iterate(canvas, n, connections, positions, temperature100, iterations) ==
    IF iterations = 0
    THEN [positions |-> positions, temperature |-> temperature100]
    ELSE CHOOSE res \in
             { Iterate(canvas, n, connections, moved, cooled, remaining) :
                 moved \in {Iteration(canvas, n, connections, positions,
                                      temperature100)},
                 cooled \in {(temperature100 * 95) \div 100},
                 remaining \in {iterations - 1} } : TRUE

\* the same passes taken in runs of at most ten, for long loops
RECURSIVE IterateLong(_, _, _, _, _, _)
IterateLong(canvas, n, connections, positions, temperature100, iterations) ==
    IF iterations <= 10
    THEN Iterate(canvas, n, connections, positions, temperature100, iterations)
    ELSE CHOOSE res \in
             { IterateLong(canvas, n, connections, part.positions,
                           part.temperature, iterations - 10) :
                 part \in {Iterate(canvas, n, connections, positions,
                                   temperature100, 10)} } : TRUE

\* values that random.uniform(a, b) can return: the two ends and the middle
Uniform(a, b) == {a, (a + b) \div 2, b}
UniformEnds(a, b) == {a, b}

\* canvases narrower and lower than two margins, and wider
Canvases == {<<150, 150>>, <<220, 210>>, <<240, 180>>}

\* connections of analyze_connections: ent1_id -> ent2_id, entity 9 is not
\* among the entities laid out
ConnectionSets == SUBSET {<<1, 2>>, <<2, 1>>, <<1, 9>>}

InitLayout ==
    /\ IdleCache /\ IdleService /\ IdleThreads /\ IdleResolve
    /\ IdleGraph /\ IdleDiagram /\ IdleLink /\ IdleTimeline /\ IdleStore
    /\ lastCall = [op |-> "init"]
    /\ f_canvas \in Canvases
    /\ \E n \in 1..MaxLayoutEntities : f_entities = [i \in 1..n |-> i]
    /\ f_connections \in ConnectionSets
    /\ f_positions = <<>>
    /\ f_temperature = 0
    /\ f_iteration = 0
    /\ f_first = None

\* force_directed_layout(entities, connections, iterations); start holds the
\* positions drawn by random.uniform
ForceDirectedLayout(start, iterations) ==
    LET n == Len(f_entities)
        res == Iterate(f_canvas, n, f_connections, start,
                       f_canvas[1] * 10, iterations)
    IN  /\ lastCall.op = "init"
        /\ f_positions' = res.positions
        /\ f_temperature' = res.temperature
        /\ f_iteration' = iterations
        /\ lastCall' = [op |-> "force_directed_layout", start |-> start]
        /\ UNCHANGED <<f_canvas, f_entities, f_connections, f_first, cacheVars,
                       serviceVars, threadVars, resolveVars, graphVars,
                       diagramVars, linkVars, timelineVars, storeVars>>

NextLayout ==
    /\ lastCall.op = "init"
    /\ \E iterations \in 0..MaxIterations :
         \E start \in [1..Len(f_entities) ->
                          Uniform(margin, f_canvas[1] - margin)
                              \X UniformEnds(margin, f_canvas[2] - margin)] :
             ForceDirectedLayout(start, iterations)

SpecLayout == InitLayout /\ [][NextLayout]_vars

InsideMargins ==
    \A ent \in 1..Len(f_positions) :
        /\ margin <= f_positions[ent][1]
        /\ f_positions[ent][1] <= f_canvas[1] - margin
        /\ margin <= f_positions[ent][2]
        /\ f_positions[ent][2] <= f_canvas[2] - margin

\* C20 as stated: for every canvas size, node set, connection set and number
\* of iterations, every position that force_directed_layout returns lies
\* between margin and canvas_width - margin, and margin and canvas_height -
\* margin.
C20_LayoutBoundedAnyCanvas ==
    lastCall.op = "force_directed_layout" => InsideMargins

\* C20, amended: on a canvas at least two margins wide and high, every
\* position that force_directed_layout returns, after any number of
\* iterations, lies between margin and canvas_width - margin, and margin and
\* canvas_height - margin.
C20_LayoutBounded ==
    (/\ lastCall.op = "force_directed_layout"
     /\ f_canvas[1] >= 2 * margin
     /\ f_canvas[2] >= 2 * margin)
    => InsideMargins

\* two nodes on a wide canvas that the repulsion of an iteration pushed
\* against opposite margins
C20_Witness ==
    /\ lastCall.op = "force_directed_layout"
    /\ f_canvas[1] >= 2 * margin /\ f_canvas[2] >= 2 * margin
    /\ f_iteration >= 1
    /\ Len(f_positions) = 2
    /\ f_positions # lastCall.start
    /\ \E a, b \in 1..2 :
          /\ f_positions[a][1] = margin
          /\ f_positions[b][1] = f_canvas[1] - margin

(***************************************************************************)
(* Two runs of a layout on the same input                                  *)
(***************************************************************************)
\* math.cos and math.sin of 2 * pi * i / num_entities, in thousandths
Cos1000(i, num_entities) ==
    CASE num_entities = 1 -> 1000
      [] num_entities = 2 -> <<1000, -1000>>[i + 1]
      [] num_entities = 3 -> <<1000, -500, -500>>[i + 1]
      [] num_entities = 4 -> <<1000, 0, -1000, 0>>[i + 1]

Sin1000(i, num_entities) ==
    CASE num_entities = 1 -> 0
      [] num_entities = 2 -> <<0, 0>>[i + 1]
      [] num_entities = 3 -> <<0, 866, -866>>[i + 1]
      [] num_entities = 4 -> <<0, 1000, 0, -1000>>[i + 1]

\* circular_layout(entities) with the default radius
circular_layout(canvas, num_entities) ==
    LET least == IF canvas[1] < canvas[2] THEN canvas[1] ELSE canvas[2]
        radius == least \div 3
        center_x == canvas[1] \div 2
        center_y == canvas[2] \div 2
    IN  [ent \in 1..num_entities |->
            <<center_x + Quot(radius * Cos1000(ent - 1, num_entities), 1000),
              center_y + Quot(radius * Sin1000(ent - 1, num_entities), 1000)>>]

InitRuns ==
    /\ InitLayout
    /\ f_canvas = <<220, 210>>
    /\ f_connections \in {{}, {<<1, 2>>}}

runsFrame == <<f_canvas, f_entities, f_connections, cacheVars, serviceVars,
               threadVars, resolveVars, graphVars, diagramVars, linkVars,
               timelineVars, storeVars>>

\* the starting positions random.uniform can draw for the entities
StartPositions ==
    [1..Len(f_entities) ->
        Uniform(margin, f_canvas[1] - margin)
            \X UniformEnds(margin, f_canvas[2] - margin)]

\* a second force_directed_layout(entities, connections, iterations) with the
\* arguments of the first; random.uniform draws again
ForceDirectedLayoutAgain(start) ==
    LET res == Iterate(f_canvas, Len(f_entities), f_connections, start,
                       f_canvas[1] * 10, f_iteration)
    IN  /\ lastCall.op = "force_directed_layout"
        /\ f_first' = Some(f_positions)
        /\ f_positions' = res.positions
        /\ f_temperature' = res.temperature
        /\ lastCall' = [op |-> "force_directed_layout_again", start |-> start]
        /\ UNCHANGED <<f_iteration, runsFrame>>

CircularLayout ==
    /\ lastCall.op = "init"
    /\ f_positions' = circular_layout(f_canvas, Len(f_entities))
    /\ lastCall' = [op |-> "circular_layout"]
    /\ UNCHANGED <<f_temperature, f_iteration, f_first, runsFrame>>

CircularLayoutAgain ==
    /\ lastCall.op = "circular_layout"
    /\ f_first' = Some(f_positions)
    /\ f_positions' = circular_layout(f_canvas, Len(f_entities))
    /\ lastCall' = [op |-> "circular_layout_again"]
    /\ UNCHANGED <<f_temperature, f_iteration, runsFrame>>

NextRuns ==
    \/ NextLayout
    \/ /\ lastCall.op = "force_directed_layout"
       /\ \E start \in StartPositions : ForceDirectedLayoutAgain(start)
    \/ CircularLayout
    \/ CircularLayoutAgain

SpecRuns == InitRuns /\ [][NextRuns]_vars

\* C21: two runs of a layout on the same entities, the same connections and
\* the same parameters return identical positions for every node.
C21_LayoutDeterministic ==
    lastCall.op \in {"force_directed_layout_again", "circular_layout_again"}
        => f_first = Some(f_positions)

(***************************************************************************)
(* RelationshipDiagram.generate_node_positions                             *)
(***************************************************************************)
\* the default of the iterations parameter of force_directed_layout
DefaultIterations == 100

\* generate_node_positions(entities, layout, connections): the (x, y) of the
\* NodePosition of every entity, or raised for the ZeroDivisionError of
\* area / len(entities)
generate_node_positions(canvas, num_entities, connections, layout, start) ==
    IF layout = "force-directed" /\ connections # {}
    THEN IF num_entities = 0
         THEN [positions |-> <<>>, raised |-> TRUE]
         ELSE [positions |-> IterateLong(canvas, num_entities, connections, start,
                                         canvas[1] * 10, DefaultIterations).positions,
               raised |-> FALSE]
    ELSE [positions |-> circular_layout(canvas, num_entities), raised |-> FALSE]

Layouts == {"circular", "force-directed"}

InitNodes ==
    /\ IdleCache /\ IdleService /\ IdleThreads /\ IdleResolve
    /\ IdleGraph /\ IdleDiagram /\ IdleLink /\ IdleTimeline /\ IdleStore
    /\ lastCall = [op |-> "init"]
    /\ f_canvas \in Canvases
    /\ \E n \in 0..MaxLayoutEntities : f_entities = [i \in 1..n |-> i]
    /\ f_connections \in {{}, {<<1, 2>>}}
    /\ f_positions = <<>>
    /\ f_temperature = 0
    /\ f_iteration = 0
    /\ f_first = None

\* start holds the positions random.uniform draws if force_directed_layout runs
GenerateNodePositions(layout, start) ==
    LET res == generate_node_positions(f_canvas, Len(f_entities), f_connections,
                                       layout, start)
    IN  /\ lastCall.op = "init"
        /\ f_positions' = res.positions
        /\ lastCall' = [op |-> "generate_node_positions", layout |-> layout,
                        start |-> IF layout = "force-directed" /\ f_connections # {}
                                  THEN start ELSE <<>>,
                        raised |-> res.raised]
        /\ UNCHANGED <<f_temperature, f_iteration, f_first, runsFrame>>

NextNodes ==
    /\ lastCall.op = "init"
    /\ \E layout \in Layouts, start \in StartPositions :
           GenerateNodePositions(layout, start)

SpecNodes == InitNodes /\ [][NextNodes]_vars

\* C22: generate_node_positions never raises for degenerate input: with zero
\* entities it returns an empty list for both layouts, and with exactly one
\* entity it returns that entity placed at the canvas centre.
C22_DegenerateInput ==
    lastCall.op = "generate_node_positions" =>
        /\ Len(f_entities) <= 1 => ~lastCall.raised
        /\ Len(f_entities) = 0 => f_positions = <<>>
        /\ Len(f_entities) = 1 =>
              f_positions = << <<f_canvas[1] \div 2, f_canvas[2] \div 2>> >>

(***************************************************************************)
(* Extraction over a cache table that cannot be read                       *)
(***************************************************************************)
NextUnreadable ==
    \/ \E s \in StoryIds, force \in BOOLEAN, gpt \in GptAnswers :
          \E backend \in Backends :
          \E failure \in ReadFailures(backend) \cup {"none"} :
             ExtractStoryRead(s, force, gpt, backend, failure)
             /\ UNCHANGED otherVars
    \/ \E c \in ContentPool, v \in Visibilities :
           UpdateStory("s1", c, v) /\ UNCHANGED otherVars

SpecUnreadable == Init /\ [][NextUnreadable]_vars

\* C23: a read of the cache entry of a story that fails on unreadable data is
\* a cache miss: extract_events_from_story never reports the error of the
\* failed read.
C23_UnreadableCacheIsMiss ==
    lastCall.op = "extract_events_from_story" => lastCall.cache_read_error = ""

(***************************************************************************)
(* Table worlds (NoSQLStorage.save_world, load_world, delete_world)        *)
(***************************************************************************)
WorldIds == {"w1", "w2"}

\* the dicts handed to save_world: a World.to_dict() with or without the
\* description field
WorldDicts ==
    { << <<"world_id", id>>, <<"name", name>> >> \o rest :
        id \in WorldIds, name \in {"n1", "n2"},
        rest \in {<<>>, << <<"description", "d1">> >>, << <<"description", "d2">> >>} }

\* self.worlds.search(WorldQuery.world_id == world_id)
search_worlds(tbl, world_id) ==
    SelectSeq(tbl, LAMBDA doc : DictGet(doc, "world_id") = world_id)

\* doc.update(fields) of TinyDB's update: the fields given are set, the other
\* fields of the document stay
RECURSIVE DictUpdate(_, _, _)
DictUpdate(doc, fields, i) ==
    IF i > Len(fields) THEN doc
    ELSE DictUpdate(DictSet(doc, fields[i][1], fields[i][2]), fields, i + 1)

\* a save that inserts without looking for the stored record
save_world_insert(tbl, world_data) == Append(tbl, world_data)

save_world(tbl, world_data) ==
    LET world_id == DictGet(world_data, "world_id")
    IN  IF search_worlds(tbl, world_id) # <<>>
        THEN [i \in 1..Len(tbl) |->
                 IF DictGet(tbl[i], "world_id") = world_id
                 THEN DictUpdate(tbl[i], world_data, 1) ELSE tbl[i]]
        ELSE Append(tbl, world_data)

load_world(tbl, world_id) ==
    LET results == search_worlds(tbl, world_id)
    IN  IF results # <<>> THEN Some(results[1]) ELSE None

\* self.worlds.remove(...) returns the ids of the documents removed
delete_world(tbl, world_id) ==
    [table |-> SelectSeq(tbl, LAMBDA doc : DictGet(doc, "world_id") # world_id),
     result |-> Len(search_worlds(tbl, world_id)) > 0]

InitStore ==
    /\ IdleCache /\ IdleService /\ IdleThreads /\ IdleResolve
    /\ IdleGraph /\ IdleDiagram /\ IdleMore
    /\ lastCall = [op |-> "init"]

storeFrame == <<cacheVars, serviceVars, threadVars, resolveVars, graphVars,
                diagramVars, linkVars, timelineVars, layoutVars, gpt_results,
                t_callbacks, t_threads>>

SaveWorld(world_data) ==
    /\ worlds' = save_world(worlds, world_data)
    /\ w_saved' = DictSet(w_saved, DictGet(world_data, "world_id"), world_data)
    /\ lastCall' = [op |-> "save_world",
                    world_id |-> DictGet(world_data, "world_id")]
    /\ UNCHANGED storeFrame

DeleteWorld(world_id) ==
    /\ worlds' = delete_world(worlds, world_id).table
    /\ w_saved' = SelectSeq(w_saved, LAMBDA entry : entry[1] # world_id)
    /\ lastCall' = [op |-> "delete_world", world_id |-> world_id,
                    result |-> delete_world(worlds, world_id).result,
                    existed |-> DictHas(w_saved, world_id)]
    /\ UNCHANGED storeFrame

NextStore ==
    \/ \E world_data \in WorldDicts : SaveWorld(world_data)
    \/ \E world_id \in WorldIds : DeleteWorld(world_id)

SpecStore == InitStore /\ [][NextStore]_vars

\* C25: after any sequence of save_world and delete_world the table holds at
\* most one record per world_id; load_world returns, for every field of the
\* latest save of the world, the value of that save, and None for a world
\* that is not stored; delete_world returns True exactly when a record with
\* the id existed.
C25_OneRecordPerWorld ==
    /\ \A world_id \in WorldIds :
          /\ Len(search_worlds(worlds, world_id)) <= 1
          /\ IF DictHas(w_saved, world_id)
             THEN /\ load_world(worlds, world_id) # None
                  /\ LET latest == DictGet(w_saved, world_id)
                         loaded == load_world(worlds, world_id)[1]
                     IN  \A i \in 1..Len(latest) :
                            /\ DictHas(loaded, latest[i][1])
                            /\ DictGet(loaded, latest[i][1]) = latest[i][2]
             ELSE load_world(worlds, world_id) = None
    /\ lastCall.op = "delete_world" => lastCall.result = lastCall.existed

\* two worlds are stored and the first was saved again with another name and
\* without the description field that its stored record holds
C25_Witness ==
    /\ Len(worlds) = 2
    /\ DictHas(w_saved, "w1")
    /\ DictGet(DictGet(w_saved, "w1"), "name") = "n2"
    /\ DictGet(worlds[1], "world_id") = "w1"
    /\ DictHas(worlds[1], "description")
    /\ ~DictHas(DictGet(w_saved, "w1"), "description")
    /\ lastCall.op = "save_world"

(***************************************************************************)
(* Visibility and owner of the created events                              *)
(***************************************************************************)
\* the owner_id of the stories of the world: the user who created them
StoryOwner == Some("u1")

\* C26: every event created by event extraction has the visibility and the
\* owner_id of the story it belongs to.
C26_EventsInheritFromStory ==
    \A i \in 1..Len(events) :
        /\ events[i].visibility = stories[events[i].story_id].visibility
        /\ events[i].owner_id = StoryOwner

\* C27: after an extraction of a story has completed, the events stored for
\* that story are exactly the events built in that run (every one of them has
\* an id given by that run), so repeated extractions of an unchanged story do
\* not increase the number of its stored events.
C27_EventsReplaced ==
    [][ (/\ lastCall'.op = "extract_events_from_story"
         /\ lastCall'.status = "completed") =>
           \A i \in 1..Len(events') :
               events'[i].story_id = lastCall'.story_id =>
                   events'[i].event_id >= next_event_id ]_vars

\* C28: a connection {from_event_index: a, to_event_index: b} of the analyzer
\* result whose two indices are indices of accepted events is attached to the
\* event built from events[a] and targets the event built from events[b], also
\* when entries before them were discarded; this holds for
\* _process_gpt_result and for _process_combined_gpt_result alike.
C28_ConnectionByResultIndex ==
    Processed =>
        \A k \in 1..Len(lastCall.raw_result.connections) :
            LET conn == lastCall.raw_result.connections[k]
            IN  (Accepted(conn.from_event_index) /\ Accepted(conn.to_event_index)) =>
                    /\ ~lastCall.raised
                    /\ \E e \in 1..Len(events) :
                          /\ events[e].event_id = EventIdOf(conn.from_event_index)
                          /\ \E c \in 1..Len(events[e].connections) :
                                events[e].connections[c].target_event_id
                                    = EventIdOf(conn.to_event_index)

(***************************************************************************)
(* Extractions that end with callback_error                                *)
(***************************************************************************)
\* an analyzer result that parses as JSON and whose connection names the
\* discarded event 0: _process_gpt_result raises KeyError on it
UnprocessableResult ==
    [events |-> << [story_index |-> 0, title |-> <<>>, description |-> <<>>,
                    story_position |-> 0,
                    characters |-> <<>>, locations |-> <<>>],
                   [story_index |-> 0, title |-> <<"t", "2">>,
                    description |-> <<>>, story_position |-> 3,
                    characters |-> <<>>, locations |-> <<>>] >>,
     connections |-> << [from_event_index |-> 0, to_event_index |-> 0,
                         relation_type |-> "character", relation_label |-> ""] >>]

FailAnswers == GptAnswers \cup {Some(UnprocessableResult)}

\* the story and world extractions with every analyzer answer, and the story
\* update route rewriting the content of story s1
NextFail ==
    \/ \E s \in StoryIds, force \in BOOLEAN, gpt \in FailAnswers :
           ExtractStory(s, force, gpt) /\ UNCHANGED otherVars
    \/ \E force \in BOOLEAN, gpt \in FailAnswers :
           ExtractWorld(force, gpt) /\ UNCHANGED otherVars
    \/ \E c \in ContentPool :
           UpdateStory("s1", c, stories["s1"].visibility) /\ UNCHANGED otherVars

SpecFail == Init /\ [][NextFail]_vars

\* C29: an extraction that reports an error leaves the stored state as it was:
\* the events table and the analysis cache are those of before the call.
C29_ErrorLeavesStateUnchanged ==
    [][ (/\ lastCall'.op \in {"extract_events_from_story",
                              "extract_events_from_world"}
         /\ lastCall'.status = "error") =>
           /\ events' = events
           /\ event_analysis_cache' = event_analysis_cache ]_vars

(***************************************************************************)
(* Extraction tasks of the event routes (table gpt_tasks behind TaskStore)  *)
(***************************************************************************)
\* storage.load_gpt_task: the first record of the task, or None
load_gpt_task(tbl, task_id) ==
    LET results == SelectSeq(tbl, LAMBDA t : t.task_id = task_id)
    IN  IF results = <<>> THEN None ELSE Some(results[1])

\* storage.update_gpt_task: merge update_data into the stored records
update_gpt_task(tbl, task_id, update_data) ==
    [i \in 1..Len(tbl) |->
        IF tbl[i].task_id = task_id THEN update_data ELSE tbl[i]]

\* storage.save_gpt_task: update the record of the task_id, or insert one
save_gpt_task(tbl, task_data) ==
    IF \E i \in 1..Len(tbl) : tbl[i].task_id = task_data.task_id
    THEN update_gpt_task(tbl, task_data.task_id, task_data)
    ELSE Append(tbl, task_data)

\* a write that inserts a record for every call
TaskStore_setitem_insert(tbl, task_id, value) ==
    Append(tbl, [task_id |-> task_id, status |-> value.status])

\* TaskStore.__setitem__: gpt_results[task_id] = value (the result and the two
\* timestamps of the record are not modelled)
TaskStore_setitem(tbl, task_id, value) ==
    LET task_data == [task_id |-> task_id, status |-> value.status]
    IN  IF load_gpt_task(tbl, task_id) # None
        THEN update_gpt_task(tbl, task_id, task_data)
        ELSE save_gpt_task(tbl, task_data)

\* the closures the routes pass as callback_success and callback_error
on_success(tbl, task_id) == TaskStore_setitem(tbl, task_id, [status |-> "completed"])
on_error(tbl, task_id) == TaskStore_setitem(tbl, task_id, [status |-> "error"])

\* the callback _extract invokes: callback_success at the end of the try block
\* (reported as "completed"), callback_error in the except block
callback_of(report) ==
    IF report.status = "completed" THEN "callback_success" ELSE "callback_error"

\* the number of events one analyzer answer can add to the events table
AcceptedOf(result) ==
    Len(SelectSeq(result.events, LAMBDA evt : ~IsEmptyEvent(evt)))

\* what the analyzer call of a thread gives: an exception, a result of one
\* event, or the result whose processing raises
TaskAnswers ==
    {None, Some(UnprocessableResult)}
    \cup { Some(r) : r \in { g \in GptResults : Len(g.events) = 1 } }

LargestAnswer ==
    CHOOSE n \in { AcceptedOf(a[1]) : a \in TaskAnswers \ {None} } :
        \A a \in TaskAnswers \ {None} : AcceptedOf(a[1]) <= n

InitTask == Init

taskFrame == <<threadVars, resolveVars, graphVars, diagramVars, linkVars,
               timelineVars, layoutVars, worlds, w_saved>>

\* POST /api/stories/<id>/events/extract and POST /api/worlds/<id>/events/extract:
\* the task is recorded as pending, then the service starts the thread.  A
\* request is made while event ids remain for its result.
StartTask(target, story_id, force) ==
    LET task_id == Len(t_threads)
    IN  /\ (Len(t_threads) + 1) * LargestAnswer <= MaxEvents
        /\ gpt_results' = TaskStore_setitem(gpt_results, task_id,
                                            [status |-> "pending"])
        /\ t_threads' = Append(t_threads,
                               [task_id |-> task_id, target |-> target,
                                story_id |-> story_id, force |-> force,
                                state |-> "started"])
        /\ t_callbacks' = Append(t_callbacks, <<>>)
        /\ lastCall' = [op |-> "extract_route", task_id |-> task_id,
                        status |-> "pending"]
        /\ UNCHANGED <<cacheVars, serviceVars, taskFrame>>

\* the thread of task i runs _extract, which ends by invoking a callback
RunThread(i) ==
    /\ i \in 1..Len(t_threads)
    /\ t_threads[i].state = "started"
    /\ t_threads' = [t_threads EXCEPT ![i].state = "finished"]
    /\ \E gpt \in TaskAnswers :
          /\ IF t_threads[i].target = "story"
             THEN ExtractStory(t_threads[i].story_id, t_threads[i].force, gpt)
             ELSE ExtractWorld(t_threads[i].force, gpt)
          /\ t_callbacks' = [t_callbacks EXCEPT ![i] = Append(@, callback_of(lastCall'))]
          /\ gpt_results' =
                IF callback_of(lastCall') = "callback_success"
                THEN on_success(gpt_results, t_threads[i].task_id)
                ELSE on_error(gpt_results, t_threads[i].task_id)
    /\ UNCHANGED taskFrame

\* the requests are for story s1 and for the world
NextTask ==
    \/ \E force \in BOOLEAN : StartTask("story", "s1", force)
    \/ \E force \in BOOLEAN : StartTask("world", WorldCacheKey, force)
    \/ \E i \in 1..(MaxEvents \div LargestAnswer) : RunThread(i)

SpecTask == InitTask /\ [][NextTask]_vars

\* the started threads are daemon threads of the running server: while one of
\* them has not returned from _extract, one of them is scheduled
SpecTaskFair ==
    SpecTask /\ WF_vars(\E i \in 1..(MaxEvents \div LargestAnswer) : RunThread(i))

\* GET /api/gpt/results/<task_id>: gpt_results.get(task_id)
TaskStatus(i) == load_gpt_task(gpt_results, t_threads[i].task_id)[1].status

TerminalStatuses == {"completed", "error"}

====
